---- MODULE Spec2Model ----
(***************************************************************************)
(* The Cypher query compiler of infra/impl/graph/neo4j/neo4j.go:           *)
(* buildCypherQueryForOperation and the builders it calls                  *)
(* (buildMatchClause, buildWhereClause, buildCondition, the operation      *)
(* clause generators of Query, Count, Update*ByQuery and Delete*ByQuery,   *)
(* buildSetClause), over the Query values of infra/contract/graph/query.go.*)
(*                                                                         *)
(* Representation.                                                         *)
(*  - A Go string that the code assembles is kept as the sequence of the   *)
(*    pieces the code writes (a "text"); Cat gives the string itself.      *)
(*  - A Go pointer is a sequence of length 0 (nil) or 1.                   *)
(*  - A Go map is a function; ranging over it visits its keys in an order  *)
(*    the runtime chooses, so every loop over a map is modelled over every *)
(*    order of its keys.                                                   *)
(*  - A Go value of type any is a pair <<type, value>>.                    *)
(*  - TLA+ strings cannot hold the backquote character: BQ stands for it.  *)
(***************************************************************************)
EXTENDS Integers, Sequences, FiniteSets, TLC

VARIABLES
    query,           \* query[c]: the *graph.Query call c was given
    properties,      \* properties[c]: the graph.Properties of an Update*ByQuery call
    op,              \* op[c]: the client method that call c runs
    pc,              \* pc[c]: how far call c has got
    params,          \* params[c]: the call's params map (neo4j.go:976)
    sb,              \* sb[c]: the call's strings.Builder (neo4j.go:975), as a text
    bound,           \* bound[c]: the <<name, value>> assignments to params[c], in order
    matchClause,     \* matchClause[c]: what buildMatchClause returned (neo4j.go:979)
    whereClause,     \* whereClause[c]: what buildWhereClause returned (neo4j.go:986)
    aliasesInMatch,  \* aliasesInMatch[c]: the list handed to the generator (neo4j.go:994)
    opClause,        \* opClause[c]: the text the generator returned (neo4j.go:1020)
    opParams,        \* opParams[c]: the map the generator returned (neo4j.go:1020)
    cypher,          \* cypher[c]: the string the client method runs
    nodeAlias,       \* the alias buildNodeMatchClause was given
    nodeSelector,    \* the *graph.NodeSelector buildNodeMatchClause was given
    nodePc,          \* how far the call of buildNodeMatchClause has got
    nodeMatch,       \* the text buildNodeMatchClause returned
    nodeParams,      \* the map buildNodeMatchClause returned
    concurrentCount, \* taskgroup: the limit NewTaskGroup set on the errgroup
    execAllTask,     \* taskgroup: t.execAllTask
    fails,           \* taskgroup: the tasks whose f returns an error
    ctxDone,         \* taskgroup: t.ctx is done
    groupErr,        \* taskgroup: the error the errgroup has kept
    sem,             \* taskgroup: the slots of the limit in use
    wg,              \* taskgroup: the errgroup's count of tasks not yet done
    goNext,          \* taskgroup: the task the caller hands to Go next
    taskPc,          \* taskgroup: taskPc[t], how far task t has got
    taskRet,         \* taskgroup: taskRet[t], what the function of task t returned
    waitRet,         \* taskgroup: what Wait returned, once it has
    invoked,         \* taskgroup: the tasks whose f has been invoked
    returnedErrors,  \* taskgroup: the tasks whose f returned an error, in order
    afterError,      \* taskgroup: tasks started after an f had returned an error
    afterCancel,     \* taskgroup: tasks started after the context was done
    recordedErrors,  \* taskgroup: the tasks whose error reached the errgroup, in order
    workers,         \* workpool: the number of workers New started
    bufferSize,      \* workpool: the capacity New gave both channels
    jobQueue,        \* workpool: the jobs buffered in wp.jobQueue
    queueClosed,     \* workpool: wp.jobQueue is closed
    resultChan,      \* workpool: the results buffered in wp.resultChan
    poolCtxDone,     \* workpool: wp.ctx is done
    poolWg,          \* workpool: the count of wp.wg
    submitPc,        \* workpool: submitPc[j], how far the Submit of job j has got
    workerPc,        \* workpool: workerPc[w], where worker w stands
    workerJob,       \* workpool: workerJob[w], the job worker w holds
    ctlPc,           \* workpool: how far Close or Shutdown has got
    collectPc,       \* workpool: how far CollectAll has got
    results          \* workpool: the slice CollectAll has built

compilerVars == <<query, properties, op, pc, params, sb, bound, matchClause,
                  whereClause, aliasesInMatch, opClause, opParams, cypher>>

selectorVars == <<nodeAlias, nodeSelector, nodePc, nodeMatch, nodeParams>>

groupVars == <<concurrentCount, execAllTask, fails, ctxDone, groupErr, sem, wg, goNext,
               taskPc, taskRet, waitRet, invoked, returnedErrors, afterError,
               afterCancel, recordedErrors>>

poolVars == <<workers, bufferSize, jobQueue, queueClosed, resultChan, poolCtxDone,
              poolWg, submitPc, workerPc, workerJob, ctlPc, collectPc, results>>

\* the variables of the other programs of this module
restVars == <<selectorVars, groupVars, poolVars>>

vars == <<compilerVars, restVars>>

Calls == {1, 2}

-----------------------------------------------------------------------------
(* Go values *)

BQ == "'"

Nil == <<>>
Ptr(x) == <<x>>
Deref(p) == p[1]

StrVal(s) == <<"string", s>>
IntVal(i) == <<"int", i>>

EmptyMap == [k \in {} |-> Nil]

\* m[k] = v on a Go map
Put(m, k, v) == [x \in DOMAIN m \cup {k} |-> IF x = k THEN v ELSE m[x]]

\* every order in which a range over a map with key set S can visit the keys
RECURSIVE Orders(_)
Orders(S) ==
    IF S = {} THEN {<<>>}
    ELSE UNION {{<<k>> \o o : o \in Orders(S \ {k})} : k \in S}

\* the string a text stands for
RECURSIVE Cat(_)
Cat(t) == IF t = <<>> THEN "" ELSE Head(t) \o Cat(Tail(t))

\* strings.Join over texts
RECURSIVE JoinText(_, _)
JoinText(parts, sep) ==
    IF parts = <<>> THEN <<>>
    ELSE IF Len(parts) = 1 THEN parts[1]
    ELSE parts[1] \o <<sep>> \o JoinText(Tail(parts), sep)

\* strings.Join over strings
JoinStrings(strs, sep) == JoinText([i \in 1..Len(strs) |-> <<strs[i]>>], sep)

Digit(d) ==
    CASE d = 0 -> "0" [] d = 1 -> "1" [] d = 2 -> "2" [] d = 3 -> "3"
      [] d = 4 -> "4" [] d = 5 -> "5" [] d = 6 -> "6" [] d = 7 -> "7"
      [] d = 8 -> "8" [] d = 9 -> "9"

\* fmt.Sprintf("%d", n)
RECURSIVE Itoa(_)
Itoa(n) ==
    IF n < 0 THEN "-" \o Itoa(0 - n)
    ELSE IF n < 10 THEN Digit(n)
    ELSE Itoa(n \div 10) \o Digit(n % 10)

-----------------------------------------------------------------------------
(* graph.EdgeDirection and graph.Operator *)

DirectionOutgoing == "->"
DirectionIncoming == "<-"
DirectionBoth == "--"

OpEqual == "="
OpNotEqual == "!="
OpGreaterThan == ">"
OpGreaterThanOrEqual == ">="
OpLessThan == "<"
OpLessThanOrEqual == "<="
OpIn == "IN"
OpContains == "CONTAINS"

-----------------------------------------------------------------------------
(* buildMatchClause *)

\* alias := p.Alias; if alias == "" { alias = "n" }
NodeAlias(p) == IF p.Alias = "" THEN "n" ELSE p.Alias

\* edgeAlias := edgePattern.Alias; if edgeAlias == "" { edgeAlias = "r" }
EdgeAlias(e) == IF e.Alias = "" THEN "r" ELSE e.Alias

\* edgeNodeAlias := edgePattern.Node.Alias; if edgeNodeAlias == "" { edgeNodeAlias = "m" }
EdgeNodeAlias(n) == IF n.Alias = "" THEN "m" ELSE n.Alias

\* paramName := alias + "_" + key
InlineParamName(alias, key) == alias \o "_" \o key

\* NodeLabels writing the labels last to first
RECURSIVE NodeLabels_Reversed(_)
NodeLabels_Reversed(labels) ==
    IF labels = <<>> THEN <<>>
    ELSE NodeLabels_Reversed(Tail(labels)) \o <<":" \o BQ, Head(labels), BQ>>

\* for _, label := range labels { ":`" label "`" }
RECURSIVE NodeLabels(_)
NodeLabels(labels) ==
    IF labels = <<>> THEN <<>>
    ELSE <<":" \o BQ, Head(labels), BQ>> \o NodeLabels(Tail(labels))

\* The loop over an inline property map, visiting its keys in the order ord,
\* and the braces around it.  acc is [text, params, bound].
RECURSIVE InlineLoop(_, _, _, _)
InlineLoop(alias, props, ord, acc) ==
    IF ord = <<>> THEN acc
    ELSE LET key == Head(ord)
             paramName == InlineParamName(alias, key)
         IN  InlineLoop(alias, props, Tail(ord),
                 [text   |-> Append(acc.text, <<key, ": $", paramName>>),
                  params |-> Put(acc.params, paramName, props[key]),
                  bound  |-> Append(acc.bound, <<paramName, props[key]>>)])

InlineProperties(alias, props, ord, ps, bd) ==
    IF DOMAIN props = {} THEN [text |-> <<>>, params |-> ps, bound |-> bd]
    ELSE LET r == InlineLoop(alias, props, ord,
                             [text |-> <<>>, params |-> ps, bound |-> bd])
         IN  [text   |-> <<" {">> \o JoinText(r.text, ", ") \o <<"}">>,
              params |-> r.params,
              bound  |-> r.bound]

DirectionPrefix(d) ==
    CASE d = DirectionIncoming -> "<-"
      [] d = DirectionBoth -> "-"
      [] OTHER -> "-"

\* DirectionSuffix with the arrow head on an incoming edge as well
DirectionSuffix_IncomingArrow(d) ==
    CASE d = DirectionIncoming -> "->"
      [] d = DirectionBoth -> "-"
      [] OTHER -> "->"

DirectionSuffix(d) ==
    CASE d = DirectionIncoming -> "-"
      [] d = DirectionBoth -> "-"
      [] OTHER -> "->"

\* HopRange without the case of a fixed length: always min..max
HopRange_AlwaysRange(e) ==
    IF e.MinHops # Nil \/ e.MaxHops # Nil
    THEN <<"*">> \o
         (IF e.MinHops # Nil THEN <<Itoa(Deref(e.MinHops))>> ELSE <<>>)
         \o <<"..">>
         \o (IF e.MaxHops # Nil THEN <<Itoa(Deref(e.MaxHops))>> ELSE <<>>)
    ELSE <<>>

\* the variable-length path syntax
HopRange(e) ==
    IF e.MinHops # Nil \/ e.MaxHops # Nil
    THEN <<"*">> \o
         (IF e.MinHops # Nil /\ e.MaxHops # Nil /\ Deref(e.MinHops) = Deref(e.MaxHops)
          THEN <<Itoa(Deref(e.MinHops))>>
          ELSE (IF e.MinHops # Nil THEN <<Itoa(Deref(e.MinHops))>> ELSE <<>>)
               \o <<"..">>
               \o (IF e.MaxHops # Nil THEN <<Itoa(Deref(e.MaxHops))>> ELSE <<>>))
    ELSE <<>>

EdgeTypes(e) ==
    IF Len(e.Labels) > 0 THEN <<":">> \o JoinStrings(e.Labels, "|") ELSE <<>>

\* EdgeNode writing the far node's property keys as well
EdgeNode_WithProperties(e) ==
    IF e.Node # Nil
    THEN <<"(", EdgeNodeAlias(Deref(e.Node))>>
         \o NodeLabels(Deref(e.Node).Labels)
         \o (IF DOMAIN Deref(e.Node).Properties = {} THEN <<>> ELSE <<" {", "}">>)
         \o <<")">>
    ELSE <<>>

\* the far node of an edge: alias and labels only
EdgeNode(e) ==
    IF e.Node # Nil
    THEN <<"(", EdgeNodeAlias(Deref(e.Node))>>
         \o NodeLabels(Deref(e.Node).Labels) \o <<")">>
    ELSE <<>>

\* One iteration of the loop over matchPatterns: the pattern p, with the
\* node's map ranged in the order ordN and the edge's in the order ordE.
MatchPart(p, ordN, ordE, ps, bd) ==
    LET alias == NodeAlias(p)
        path  == IF p.PathAlias # "" THEN <<p.PathAlias, " = ">> ELSE <<>>
        node  == InlineProperties(alias, p.Properties, ordN, ps, bd)
        head  == path \o <<"(", alias>> \o NodeLabels(p.Labels) \o node.text \o <<")">>
    IN  IF p.Edge = Nil
        THEN [text |-> head, params |-> node.params, bound |-> node.bound]
        ELSE LET e == Deref(p.Edge)
                 edgeAlias == EdgeAlias(e)
                 edge == InlineProperties(edgeAlias, e.Properties, ordE,
                                          node.params, node.bound)
             IN  [text   |-> head \o <<DirectionPrefix(e.Direction), "[", edgeAlias>>
                               \o EdgeTypes(e) \o HopRange(e) \o edge.text
                               \o <<"]", DirectionSuffix(e.Direction)>> \o EdgeNode(e),
                  params |-> edge.params,
                  bound  |-> edge.bound]

EdgeKeys(p) == IF p.Edge = Nil THEN {} ELSE DOMAIN Deref(p.Edge).Properties

\* every way the loop body can run for p, one per order of its two maps
MatchPartRuns(p, ps, bd) ==
    {MatchPart(p, ordN, ordE, ps, bd) :
        ordN \in Orders(DOMAIN p.Properties), ordE \in Orders(EdgeKeys(p))}

\* the loop over matchPatterns from pattern i on; parts is matchParts
RECURSIVE MatchLoop(_, _, _, _, _)
MatchLoop(matchPatterns, i, parts, ps, bd) ==
    IF i > Len(matchPatterns)
    THEN {[parts |-> parts, params |-> ps, bound |-> bd]}
    ELSE UNION {MatchLoop(matchPatterns, i + 1, Append(parts, r.text), r.params, r.bound) :
                    r \in MatchPartRuns(matchPatterns[i], ps, bd)}

\* buildMatchClause(matchPatterns, params): every run, as [text, params, bound]
buildMatchClause(matchPatterns, ps, bd) ==
    IF Len(matchPatterns) = 0
    THEN {[text |-> <<>>, params |-> ps, bound |-> bd]}
    ELSE {[text   |-> <<"MATCH ">> \o JoinText(r.parts, ", "),
           params |-> r.params,
           bound  |-> r.bound] : r \in MatchLoop(matchPatterns, 1, <<>>, ps, bd)}

-----------------------------------------------------------------------------
(* buildCondition and buildWhereClause *)

\* UniqueParamName without the loop: the name as it is, bound already or not
UniqueParamName_NoLoop(paramName, originalParamName, counter, ps) == paramName

\* the loop that appends a counter to the name until params does not hold it
RECURSIVE UniqueParamName(_, _, _, _)
UniqueParamName(paramName, originalParamName, counter, ps) ==
    IF paramName \notin DOMAIN ps THEN paramName
    ELSE UniqueParamName(originalParamName \o "_" \o Itoa(counter + 1),
                         originalParamName, counter + 1, ps)

\* OperatorToken with the operator's own text for not-equal
OperatorToken_BangEqual(operator) ==
    CASE operator = OpEqual -> " = "
      [] operator = OpNotEqual -> " != "
      [] operator = OpGreaterThan -> " > "
      [] operator = OpGreaterThanOrEqual -> " >= "
      [] operator = OpLessThan -> " < "
      [] operator = OpLessThanOrEqual -> " <= "
      [] operator = OpIn -> " IN "
      [] operator = OpContains -> " CONTAINS "
      [] OTHER -> " = "

OperatorToken(operator) ==
    CASE operator = OpEqual -> " = "
      [] operator = OpNotEqual -> " <> "
      [] operator = OpGreaterThan -> " > "
      [] operator = OpGreaterThanOrEqual -> " >= "
      [] operator = OpLessThan -> " < "
      [] operator = OpLessThanOrEqual -> " <= "
      [] operator = OpIn -> " IN "
      [] operator = OpContains -> " CONTAINS "
      [] OTHER -> " = "

\* buildCondition(cond, params): [text, params, bound]
buildCondition(cond, ps, bd) ==
    LET originalParamName == cond.Alias \o "_" \o cond.Property
        paramName == UniqueParamName(originalParamName, originalParamName, 0, ps)
    IN  [text   |-> <<cond.Alias, ".", cond.Property,
                      OperatorToken(cond.Operator), "$", paramName>>,
         params |-> Put(ps, paramName, cond.Value),
         bound  |-> Append(bd, <<paramName, cond.Value>>)]

\* for _, cond := range conds { parts = append(parts, buildCondition(cond, params)) }
RECURSIVE ConditionLoop(_, _)
ConditionLoop(conds, acc) ==
    IF conds = <<>> THEN acc
    ELSE LET r == buildCondition(Head(conds), acc.params, acc.bound)
         IN  ConditionLoop(Tail(conds),
                 [parts  |-> Append(acc.parts, r.text),
                  params |-> r.params,
                  bound  |-> r.bound])

\* One group of the Where.  acc is [clauses, params, bound]; the group adds
\* open \o (its conditions joined by sep) \o close to clauses when non-empty.
WhereGroup(conds, open, sep, close, acc) ==
    IF Len(conds) > 0
    THEN LET r == ConditionLoop(conds, [parts |-> <<>>, params |-> acc.params,
                                        bound |-> acc.bound])
         IN  [clauses |-> Append(acc.clauses, open \o JoinText(r.parts, sep) \o close),
              params  |-> r.params,
              bound   |-> r.bound]
    ELSE acc

\* buildWhereClause without the return on len(clauses) == 0
buildWhereClause_NoEmptyCheck(where, ps, bd) ==
    IF where = Nil THEN [text |-> <<>>, params |-> ps, bound |-> bd]
    ELSE LET w  == Deref(where)
             a0 == [clauses |-> <<>>, params |-> ps, bound |-> bd]
             a1 == WhereGroup(w.Filter, <<>>, " AND ", <<>>, a0)
             a2 == WhereGroup(w.Must, <<"(">>, " AND ", <<")">>, a1)
             a3 == WhereGroup(w.Should, <<"(">>, " OR ", <<")">>, a2)
             a4 == WhereGroup(w.MustNot, <<"NOT (">>, " AND ", <<")">>, a3)
         IN  [text   |-> <<"WHERE ">> \o JoinText(a4.clauses, " AND "),
              params |-> a4.params,
              bound  |-> a4.bound]

\* buildWhereClause with the Should group handled before the Must group
buildWhereClause_ShouldBeforeMust(where, ps, bd) ==
    IF where = Nil THEN [text |-> <<>>, params |-> ps, bound |-> bd]
    ELSE LET w  == Deref(where)
             a0 == [clauses |-> <<>>, params |-> ps, bound |-> bd]
             a1 == WhereGroup(w.Filter, <<>>, " AND ", <<>>, a0)
             a2 == WhereGroup(w.Should, <<"(">>, " OR ", <<")">>, a1)
             a3 == WhereGroup(w.Must, <<"(">>, " AND ", <<")">>, a2)
             a4 == WhereGroup(w.MustNot, <<"NOT (">>, " AND ", <<")">>, a3)
         IN  IF Len(a4.clauses) = 0
             THEN [text |-> <<>>, params |-> a4.params, bound |-> a4.bound]
             ELSE [text   |-> <<"WHERE ">> \o JoinText(a4.clauses, " AND "),
                   params |-> a4.params,
                   bound  |-> a4.bound]

\* buildWhereClause(where, params): [text, params, bound]
buildWhereClause(where, ps, bd) ==
    IF where = Nil THEN [text |-> <<>>, params |-> ps, bound |-> bd]
    ELSE LET w  == Deref(where)
             a0 == [clauses |-> <<>>, params |-> ps, bound |-> bd]
             a1 == WhereGroup(w.Filter, <<>>, " AND ", <<>>, a0)
             a2 == WhereGroup(w.Must, <<"(">>, " AND ", <<")">>, a1)
             a3 == WhereGroup(w.Should, <<"(">>, " OR ", <<")">>, a2)
             a4 == WhereGroup(w.MustNot, <<"NOT (">>, " AND ", <<")">>, a3)
         IN  IF Len(a4.clauses) = 0
             THEN [text |-> <<>>, params |-> a4.params, bound |-> a4.bound]
             ELSE [text   |-> <<"WHERE ">> \o JoinText(a4.clauses, " AND "),
                   params |-> a4.params,
                   bound  |-> a4.bound]

-----------------------------------------------------------------------------
(* the operation clause generators *)

\* CollectAliases with the edge alias taken as written, not defaulted
RECURSIVE CollectAliases_RawEdgeAlias(_)
CollectAliases_RawEdgeAlias(match) ==
    IF match = <<>> THEN <<>>
    ELSE LET p == Head(match)
         IN  <<NodeAlias(p)>>
             \o (IF p.Edge # Nil
                 THEN <<Deref(p.Edge).Alias>>
                      \o (IF Deref(p.Edge).Node # Nil
                          THEN <<EdgeNodeAlias(Deref(Deref(p.Edge).Node))>>
                          ELSE <<>>)
                 ELSE <<>>)
             \o CollectAliases_RawEdgeAlias(Tail(match))

\* the list of aliases buildCypherQueryForOperation collects from query.Match
RECURSIVE CollectAliases(_)
CollectAliases(match) ==
    IF match = <<>> THEN <<>>
    ELSE LET p == Head(match)
         IN  <<NodeAlias(p)>>
             \o (IF p.Edge # Nil
                 THEN <<EdgeAlias(Deref(p.Edge))>>
                      \o (IF Deref(p.Edge).Node # Nil
                          THEN <<EdgeNodeAlias(Deref(Deref(p.Edge).Node))>>
                          ELSE <<>>)
                 ELSE <<>>)
             \o CollectAliases(Tail(match))

\* clause := r.Expression; if r.Alias != "" { clause += " AS " + r.Alias }
ReturnItem(r) ==
    IF r.Alias # "" THEN <<r.Expression, " AS ", r.Alias>> ELSE <<r.Expression>>

\* ReturnItems without the default to the aliases of the Match
ReturnItems_NoDefault(q, aliases) ==
    [i \in 1..Len(q.Return) |-> ReturnItem(q.Return[i])]

ReturnItems(q, aliases) ==
    IF Len(q.Return) = 0
    THEN [i \in 1..Len(aliases) |-> <<aliases[i]>>]
    ELSE [i \in 1..Len(q.Return) |-> ReturnItem(q.Return[i])]

\* OrderItem with the test on o.Asc the wrong way round
OrderItem_AscDescSwapped(o) ==
    <<o.Alias, ".", o.Property, IF o.Asc THEN " DESC" ELSE " ASC">>

\* orderStr := o.Alias + "." + o.Property, then " DESC" or " ASC"
OrderItem(o) ==
    <<o.Alias, ".", o.Property, IF ~o.Asc THEN " DESC" ELSE " ASC">>

OrderByClause(q) ==
    IF Len(q.OrderBy) > 0
    THEN <<" ORDER BY ">>
         \o JoinText([i \in 1..Len(q.OrderBy) |-> OrderItem(q.OrderBy[i])], ", ")
    ELSE <<>>

SkipClause(q) == IF q.Skip # Nil THEN <<" SKIP $skip">> ELSE <<>>

LimitClause(q) == IF q.Limit # Nil THEN <<" LIMIT $limit">> ELSE <<>>

TailParams(q) ==
    LET p0 == EmptyMap
        p1 == IF q.Skip # Nil THEN Put(p0, "skip", IntVal(Deref(q.Skip))) ELSE p0
    IN  IF q.Limit # Nil THEN Put(p1, "limit", IntVal(Deref(q.Limit))) ELSE p1

\* the generator of buildCypherQuery: [text, params]
ReturnClause(q, aliases) ==
    [text   |-> <<"RETURN ">> \o JoinText(ReturnItems(q, aliases), ", ")
                \o OrderByClause(q) \o SkipClause(q) \o LimitClause(q),
     params |-> TailParams(q)]

\* SetParamName without the key and the count
SetParamName_AliasOnly(alias, key, n) == alias \o "_set"

\* paramName := fmt.Sprintf("%s_set_%s_%d", alias, key, len(params))
SetParamName(alias, key, n) == alias \o "_set_" \o key \o "_" \o Itoa(n)

\* the loop of buildSetClause over properties, in the order ord
RECURSIVE SetLoop(_, _, _, _)
SetLoop(alias, props, ord, acc) ==
    IF ord = <<>> THEN acc
    ELSE LET key == Head(ord)
             paramName == SetParamName(alias, key, Cardinality(DOMAIN acc.params))
         IN  SetLoop(alias, props, Tail(ord),
                 [parts  |-> Append(acc.parts, <<alias, ".", key, " = $", paramName>>),
                  params |-> Put(acc.params, paramName, props[key])])

\* buildSetClause without the return on len(properties) == 0
buildSetClause_NoEmptyCheck(alias, props) ==
    {LET r == SetLoop(alias, props, ord, [parts |-> <<>>, params |-> EmptyMap])
     IN  [text |-> <<"SET ">> \o JoinText(r.parts, ", "), params |-> r.params] :
        ord \in Orders(DOMAIN props)}

\* buildSetClause(alias, properties): every run, as [text, params]
buildSetClause(alias, props) ==
    IF DOMAIN props = {}
    THEN {[text |-> <<>>, params |-> EmptyMap]}
    ELSE {LET r == SetLoop(alias, props, ord, [parts |-> <<>>, params |-> EmptyMap])
          IN  [text |-> <<"SET ">> \o JoinText(r.parts, ", "), params |-> r.params] :
             ord \in Orders(DOMAIN props)}

\* edgeAlias of UpdateEdgesByQuery and DeleteEdgesByQuery
FirstEdgeAlias(q) ==
    IF Len(q.Match) > 0 /\ q.Match[1].Edge # Nil /\ Deref(q.Match[1].Edge).Alias # ""
    THEN Deref(q.Match[1].Edge).Alias
    ELSE ""

Nothing == {[text |-> <<>>, params |-> EmptyMap]}

\* OpClauseGenerator with DeleteNodesByQuery writing a plain DELETE
OpClauseGenerator_PlainDelete(method, q, props, aliases) ==
    CASE method = "Query" -> {ReturnClause(q, aliases)}
      [] method = "Count" ->
            IF Len(aliases) > 0
            THEN {[text |-> <<"RETURN count(", aliases[1], ")">>, params |-> EmptyMap]}
            ELSE {[text |-> <<"RETURN count(*)">>, params |-> EmptyMap]}
      [] method = "UpdateNodesByQuery" ->
            IF Len(aliases) = 0 THEN Nothing ELSE buildSetClause(aliases[1], props)
      [] method = "UpdateEdgesByQuery" ->
            IF FirstEdgeAlias(q) = "" THEN Nothing
            ELSE buildSetClause(FirstEdgeAlias(q), props)
      [] method = "DeleteNodesByQuery" ->
            IF Len(aliases) = 0 THEN Nothing
            ELSE {[text |-> <<"DELETE ", aliases[1]>>, params |-> EmptyMap]}
      [] method = "DeleteEdgesByQuery" ->
            IF FirstEdgeAlias(q) = "" THEN Nothing
            ELSE {[text |-> <<"DELETE ", FirstEdgeAlias(q)>>, params |-> EmptyMap]}

\* OpClauseGenerator with Count writing the query's SKIP and LIMIT as well
OpClauseGenerator_CountWithTail(method, q, props, aliases) ==
    CASE method = "Query" -> {ReturnClause(q, aliases)}
      [] method = "Count" ->
            IF Len(aliases) > 0
            THEN {[text   |-> <<"RETURN count(", aliases[1], ")">>
                              \o SkipClause(q) \o LimitClause(q),
                   params |-> TailParams(q)]}
            ELSE {[text |-> <<"RETURN count(*)">>, params |-> EmptyMap]}
      [] method = "UpdateNodesByQuery" ->
            IF Len(aliases) = 0 THEN Nothing ELSE buildSetClause(aliases[1], props)
      [] method = "UpdateEdgesByQuery" ->
            IF FirstEdgeAlias(q) = "" THEN Nothing
            ELSE buildSetClause(FirstEdgeAlias(q), props)
      [] method = "DeleteNodesByQuery" ->
            IF Len(aliases) = 0 THEN Nothing
            ELSE {[text |-> <<"DETACH DELETE ", aliases[1]>>, params |-> EmptyMap]}
      [] method = "DeleteEdgesByQuery" ->
            IF FirstEdgeAlias(q) = "" THEN Nothing
            ELSE {[text |-> <<"DELETE ", FirstEdgeAlias(q)>>, params |-> EmptyMap]}

\* OpClauseGenerator with UpdateNodesByQuery setting on "n" when there is no alias
OpClauseGenerator_SetWithoutAlias(method, q, props, aliases) ==
    CASE method = "Query" -> {ReturnClause(q, aliases)}
      [] method = "Count" ->
            IF Len(aliases) > 0
            THEN {[text |-> <<"RETURN count(", aliases[1], ")">>, params |-> EmptyMap]}
            ELSE {[text |-> <<"RETURN count(*)">>, params |-> EmptyMap]}
      [] method = "UpdateNodesByQuery" ->
            IF Len(aliases) = 0 THEN buildSetClause("n", props)
            ELSE buildSetClause(aliases[1], props)
      [] method = "UpdateEdgesByQuery" ->
            IF FirstEdgeAlias(q) = "" THEN Nothing
            ELSE buildSetClause(FirstEdgeAlias(q), props)
      [] method = "DeleteNodesByQuery" ->
            IF Len(aliases) = 0 THEN Nothing
            ELSE {[text |-> <<"DETACH DELETE ", aliases[1]>>, params |-> EmptyMap]}
      [] method = "DeleteEdgesByQuery" ->
            IF FirstEdgeAlias(q) = "" THEN Nothing
            ELSE {[text |-> <<"DELETE ", FirstEdgeAlias(q)>>, params |-> EmptyMap]}

\* opClauseGenerator(aliasesInMatch) of each client method: every run
OpClauseGenerator(method, q, props, aliases) ==
    CASE method = "Query" -> {ReturnClause(q, aliases)}
      [] method = "Count" ->
            IF Len(aliases) > 0
            THEN {[text |-> <<"RETURN count(", aliases[1], ")">>, params |-> EmptyMap]}
            ELSE {[text |-> <<"RETURN count(*)">>, params |-> EmptyMap]}
      [] method = "UpdateNodesByQuery" ->
            IF Len(aliases) = 0 THEN Nothing ELSE buildSetClause(aliases[1], props)
      [] method = "UpdateEdgesByQuery" ->
            IF FirstEdgeAlias(q) = "" THEN Nothing
            ELSE buildSetClause(FirstEdgeAlias(q), props)
      [] method = "DeleteNodesByQuery" ->
            IF Len(aliases) = 0 THEN Nothing
            ELSE {[text |-> <<"DETACH DELETE ", aliases[1]>>, params |-> EmptyMap]}
      [] method = "DeleteEdgesByQuery" ->
            IF FirstEdgeAlias(q) = "" THEN Nothing
            ELSE {[text |-> <<"DELETE ", FirstEdgeAlias(q)>>, params |-> EmptyMap]}

\* what the client method appends to the text buildCypherQueryForOperation returned
CountSuffix(method, q) ==
    CASE method \in {"UpdateNodesByQuery", "DeleteNodesByQuery"} ->
            IF Len(CollectAliases(q.Match)) > 0
            THEN <<" RETURN count(", CollectAliases(q.Match)[1], ")">>
            ELSE <<" RETURN count(*)">>
      [] method \in {"UpdateEdgesByQuery", "DeleteEdgesByQuery"} ->
            IF FirstEdgeAlias(q) # ""
            THEN <<" RETURN count(", FirstEdgeAlias(q), ")">>
            ELSE <<" RETURN count(*)">>
      [] OTHER -> <<>>

\* for k, v := range opParams { params[k] = v }
MergeParams(ps, ops) ==
    [k \in DOMAIN ps \cup DOMAIN ops |-> IF k \in DOMAIN ops THEN ops[k] ELSE ps[k]]

-----------------------------------------------------------------------------
(* buildNodeMatchClause *)

\* buildNodeMatchClause writing "$" + key, without the alias
buildNodeMatchClause_KeyAsName(alias, selector) ==
    IF selector = Nil THEN {[text |-> <<>>, params |-> EmptyMap]}
    ELSE LET s    == Deref(selector)
             head == <<"(", alias>> \o NodeLabels(s.Labels)
         IN  IF DOMAIN s.Properties # {}
             THEN {LET r == InlineLoop("", s.Properties, ord,
                                       [text |-> <<>>, params |-> EmptyMap, bound |-> <<>>])
                   IN  [text   |-> <<"MATCH ">> \o head \o <<" {">>
                                   \o JoinText(r.text, ", ") \o <<"}", ")">>,
                        params |-> r.params] :
                      ord \in Orders(DOMAIN s.Properties)}
             ELSE {[text |-> <<"MATCH ">> \o head \o <<")">>, params |-> EmptyMap]}

\* buildNodeMatchClause(alias, selector): every run, as [text, params]
buildNodeMatchClause(alias, selector) ==
    IF selector = Nil THEN {[text |-> <<>>, params |-> EmptyMap]}
    ELSE LET s    == Deref(selector)
             head == <<"(", alias>> \o NodeLabels(s.Labels)
         IN  IF DOMAIN s.Properties # {}
             THEN {LET r == InlineLoop(alias, s.Properties, ord,
                                       [text |-> <<>>, params |-> EmptyMap, bound |-> <<>>])
                   IN  [text   |-> <<"MATCH ">> \o head \o <<" {">>
                                   \o JoinText(r.text, ", ") \o <<"}", ")">>,
                        params |-> r.params] :
                      ord \in Orders(DOMAIN s.Properties)}
             ELSE {[text |-> <<"MATCH ">> \o head \o <<")">>, params |-> EmptyMap]}

\* a call of buildNodeMatchClause, as CreateEdge makes for its two selectors
BuildNodeMatch ==
    /\ nodePc = "start"
    /\ \E r \in buildNodeMatchClause(nodeAlias, nodeSelector) :
          /\ nodeMatch' = r.text
          /\ nodeParams' = r.params
    /\ nodePc' = "done"
    /\ UNCHANGED <<nodeAlias, nodeSelector, compilerVars, groupVars, poolVars>>

\* no call of buildNodeMatchClause
SelectorIdle ==
    /\ nodeAlias = "" /\ nodeSelector = Nil /\ nodePc = "idle"
    /\ nodeMatch = <<>> /\ nodeParams = EmptyMap

-----------------------------------------------------------------------------
(* pkg/taskgroup: a taskGroup over an errgroup.Group with a context *)

MaxTasks == 3        \* tasks handed to Go, one after the other
MaxLimit == 2        \* the largest concurrentCount given to NewTaskGroup

Tasks == 1..MaxTasks

NoError == <<"nil">>
ContextCanceled == <<"context canceled">>
TaskError(t) == <<"error of task", t>>

\* t.errGroup.Go(...) as far as the caller is concerned: wait for a free slot
\* of the limit, count the task in, start its goroutine
Go(t) ==
    /\ goNext = t
    /\ sem < concurrentCount
    /\ sem' = sem + 1
    /\ wg' = wg + 1
    /\ taskPc' = [taskPc EXCEPT ![t] = "started"]
    /\ goNext' = t + 1
    /\ UNCHANGED <<concurrentCount, execAllTask, fails, ctxDone, groupErr, taskRet,
                   waitRet, invoked, returnedErrors, afterError, afterCancel,
                   recordedErrors>>
    /\ UNCHANGED <<compilerVars, selectorVars, poolVars>>

\* Wrapper without the look at the context: f is always called
Wrapper_NoContextCheck(t) ==
    /\ taskPc[t] = "started"
    /\ taskPc' = [taskPc EXCEPT ![t] = "running"]
    /\ invoked' = invoked \cup {t}
    /\ UNCHANGED taskRet
    /\ afterError' = IF returnedErrors # <<>> THEN afterError \cup {t} ELSE afterError
    /\ afterCancel' = IF ctxDone THEN afterCancel \cup {t} ELSE afterCancel
    /\ UNCHANGED <<concurrentCount, execAllTask, fails, ctxDone, groupErr, sem, wg,
                   goNext, waitRet, returnedErrors, recordedErrors>>
    /\ UNCHANGED <<compilerVars, selectorVars, poolVars>>

\* the function Go hands to the errgroup, up to the call of f: it returns
\* t.ctx.Err() if the group stops on errors and the context is done
Wrapper(t) ==
    /\ taskPc[t] = "started"
    /\ IF ~execAllTask /\ ctxDone
       THEN /\ taskPc' = [taskPc EXCEPT ![t] = "returned"]
            /\ taskRet' = [taskRet EXCEPT ![t] = ContextCanceled]
            /\ UNCHANGED invoked
       ELSE /\ taskPc' = [taskPc EXCEPT ![t] = "running"]
            /\ invoked' = invoked \cup {t}
            /\ UNCHANGED taskRet
    /\ afterError' = IF returnedErrors # <<>> THEN afterError \cup {t} ELSE afterError
    /\ afterCancel' = IF ctxDone THEN afterCancel \cup {t} ELSE afterCancel
    /\ UNCHANGED <<concurrentCount, execAllTask, fails, ctxDone, groupErr, sem, wg,
                   goNext, waitRet, returnedErrors, recordedErrors>>
    /\ UNCHANGED <<compilerVars, selectorVars, poolVars>>

\* return f()
TaskReturn(t) ==
    /\ taskPc[t] = "running"
    /\ taskPc' = [taskPc EXCEPT ![t] = "returned"]
    /\ taskRet' = [taskRet EXCEPT ![t] = IF t \in fails THEN TaskError(t) ELSE NoError]
    /\ returnedErrors' = IF t \in fails THEN Append(returnedErrors, t) ELSE returnedErrors
    /\ UNCHANGED <<concurrentCount, execAllTask, fails, ctxDone, groupErr, sem, wg,
                   goNext, waitRet, invoked, afterError, afterCancel,
                   recordedErrors>>
    /\ UNCHANGED <<compilerVars, selectorVars, poolVars>>

\* the errgroup's goroutine after the function returned: the first error is
\* kept and the context is cancelled
Record(t) ==
    /\ taskPc[t] = "returned"
    /\ taskPc' = [taskPc EXCEPT ![t] = "recorded"]
    /\ IF taskRet[t] # NoError /\ groupErr = NoError
       THEN groupErr' = taskRet[t] /\ ctxDone' = TRUE
       ELSE UNCHANGED <<groupErr, ctxDone>>
    /\ recordedErrors' = IF taskRet[t] # NoError THEN Append(recordedErrors, t)
                         ELSE recordedErrors
    /\ UNCHANGED <<concurrentCount, execAllTask, fails, sem, wg, goNext, taskRet,
                   waitRet, invoked, returnedErrors, afterError, afterCancel>>
    /\ UNCHANGED <<compilerVars, selectorVars, poolVars>>

\* the errgroup's deferred done(): free the slot, count the task out
TaskDone(t) ==
    /\ taskPc[t] = "recorded"
    /\ taskPc' = [taskPc EXCEPT ![t] = "done"]
    /\ sem' = sem - 1
    /\ wg' = wg - 1
    /\ UNCHANGED <<concurrentCount, execAllTask, fails, ctxDone, groupErr, goNext,
                   taskRet, waitRet, invoked, returnedErrors, afterError, afterCancel,
                   recordedErrors>>
    /\ UNCHANGED <<compilerVars, selectorVars, poolVars>>

\* Wait, called when every task has been handed to Go
Wait ==
    /\ goNext = MaxTasks + 1
    /\ waitRet = <<>>
    /\ wg = 0
    /\ waitRet' = <<groupErr>>
    /\ ctxDone' = TRUE
    /\ UNCHANGED <<concurrentCount, execAllTask, fails, groupErr, sem, wg, goNext,
                   taskPc, taskRet, invoked, returnedErrors, afterError, afterCancel,
                   recordedErrors>>
    /\ UNCHANGED <<compilerVars, selectorVars, poolVars>>

\* NewTaskGroup or NewUninterruptibleTaskGroup, and the tasks that will fail
NewTaskGroup ==
    /\ concurrentCount \in 1..MaxLimit
    /\ execAllTask \in BOOLEAN
    /\ fails \in SUBSET Tasks
    /\ ctxDone = FALSE
    /\ groupErr = NoError
    /\ sem = 0
    /\ wg = 0
    /\ goNext = 1
    /\ taskPc = [t \in Tasks |-> "new"]
    /\ taskRet = [t \in Tasks |-> <<>>]
    /\ waitRet = <<>>
    /\ invoked = {}
    /\ returnedErrors = <<>>
    /\ afterError = {}
    /\ afterCancel = {}
    /\ recordedErrors = <<>>

\* the caller cancels the context it gave NewTaskGroup
ParentCancel ==
    /\ goNext > 0
    /\ ~ctxDone
    /\ ctxDone' = TRUE
    /\ UNCHANGED <<concurrentCount, execAllTask, fails, groupErr, sem, wg, goNext,
                   taskPc, taskRet, waitRet, invoked, returnedErrors, afterError,
                   afterCancel, recordedErrors>>
    /\ UNCHANGED <<compilerVars, selectorVars, poolVars>>

\* no task group
GroupIdle ==
    /\ concurrentCount = 0 /\ execAllTask = FALSE /\ fails = {}
    /\ ctxDone = FALSE /\ groupErr = NoError /\ sem = 0 /\ wg = 0 /\ goNext = 0
    /\ taskPc = [t \in Tasks |-> "idle"] /\ taskRet = [t \in Tasks |-> <<>>]
    /\ waitRet = <<>> /\ invoked = {} /\ returnedErrors = <<>>
    /\ afterError = {} /\ afterCancel = {} /\ recordedErrors = <<>>

NextGroup ==
    \/ \E t \in Tasks : Go(t) \/ Wrapper(t) \/ TaskReturn(t) \/ Record(t) \/ TaskDone(t)
    \/ Wait
    \/ ParentCancel

-----------------------------------------------------------------------------

(* pkg/workpool: a WorkerPool over a job queue and a result channel *)

MaxJobs == 2         \* jobs that Submit is called with
MaxWorkers == 2      \* the largest number of workers given to New
MaxBuffer == 2       \* the largest bufferSize given to New

Jobs == 1..MaxJobs
Workers == 1..MaxWorkers

\* no statement of the package closes wp.resultChan
resultClosed == FALSE

\* Submit, the outer select and wp.wg.Add(1)
SubmitCheck(j) ==
    /\ submitPc[j] = "new"
    /\ IF poolCtxDone
       THEN /\ submitPc' = [submitPc EXCEPT ![j] = "errWorkerPoolClosed"]
            /\ UNCHANGED poolWg
       ELSE /\ submitPc' = [submitPc EXCEPT ![j] = "adding"]
            /\ poolWg' = poolWg + 1
    /\ UNCHANGED <<workers, bufferSize, jobQueue, queueClosed, resultChan, poolCtxDone,
                   workerPc, workerJob, ctlPc, collectPc, results>>
    /\ UNCHANGED <<compilerVars, selectorVars, groupVars>>

\* Submit, the inner select: of the cases that can proceed one is chosen; a
\* send on the closed queue can proceed, and panics
SubmitSend(j) ==
    /\ submitPc[j] = "adding"
    /\ \/ /\ ~queueClosed
          /\ Len(jobQueue) < bufferSize
          /\ jobQueue' = Append(jobQueue, j)
          /\ submitPc' = [submitPc EXCEPT ![j] = "nil"]
          /\ UNCHANGED poolWg
       \/ /\ queueClosed
          /\ submitPc' = [submitPc EXCEPT ![j] = "panic"]
          /\ UNCHANGED <<jobQueue, poolWg>>
       \/ /\ poolCtxDone
          /\ poolWg' = poolWg - 1
          /\ submitPc' = [submitPc EXCEPT ![j] = "errWorkerPoolClosed"]
          /\ UNCHANGED jobQueue
    /\ UNCHANGED <<workers, bufferSize, queueClosed, resultChan, poolCtxDone,
                   workerPc, workerJob, ctlPc, collectPc, results>>
    /\ UNCHANGED <<compilerVars, selectorVars, groupVars>>

\* worker, for job := range wp.jobQueue and the call of the job, which ends
WorkerReceive(w) ==
    /\ workerPc[w] = "ranging"
    /\ jobQueue # <<>> \/ queueClosed
    /\ IF jobQueue # <<>>
       THEN /\ workerJob' = [workerJob EXCEPT ![w] = Head(jobQueue)]
            /\ jobQueue' = Tail(jobQueue)
            /\ workerPc' = [workerPc EXCEPT ![w] = "sending"]
       ELSE /\ workerPc' = [workerPc EXCEPT ![w] = "exited"]
            /\ UNCHANGED <<workerJob, jobQueue>>
    /\ UNCHANGED <<workers, bufferSize, queueClosed, resultChan, poolCtxDone, poolWg,
                   submitPc, ctlPc, collectPc, results>>
    /\ UNCHANGED <<compilerVars, selectorVars, groupVars>>

\* worker, the select: the result is sent, or the context is done and the
\* worker returns
WorkerSend(w) ==
    /\ workerPc[w] = "sending"
    /\ \/ /\ Len(resultChan) < bufferSize
          /\ resultChan' = Append(resultChan, workerJob[w])
          /\ workerPc' = [workerPc EXCEPT ![w] = "sent"]
       \/ /\ poolCtxDone
          /\ workerPc' = [workerPc EXCEPT ![w] = "exited"]
          /\ UNCHANGED resultChan
    /\ UNCHANGED <<workers, bufferSize, jobQueue, queueClosed, poolCtxDone, poolWg,
                   submitPc, workerJob, ctlPc, collectPc, results>>
    /\ UNCHANGED <<compilerVars, selectorVars, groupVars>>

\* worker, wp.wg.Done()
WorkerDone(w) ==
    /\ workerPc[w] = "sent"
    /\ poolWg' = poolWg - 1
    /\ workerPc' = [workerPc EXCEPT ![w] = "ranging"]
    /\ UNCHANGED <<workers, bufferSize, jobQueue, queueClosed, resultChan, poolCtxDone,
                   submitPc, workerJob, ctlPc, collectPc, results>>
    /\ UNCHANGED <<compilerVars, selectorVars, groupVars>>

\* Close, called on its own
Close ==
    /\ ctlPc = "open"
    /\ queueClosed' = TRUE
    /\ ctlPc' = "closed"
    /\ UNCHANGED <<workers, bufferSize, jobQueue, resultChan, poolCtxDone, poolWg,
                   submitPc, workerPc, workerJob, collectPc, results>>
    /\ UNCHANGED <<compilerVars, selectorVars, groupVars>>

\* Shutdown, wp.cancel()
ShutdownCancel ==
    /\ ctlPc = "open"
    /\ poolCtxDone' = TRUE
    /\ ctlPc' = "cancelled"
    /\ UNCHANGED <<workers, bufferSize, jobQueue, queueClosed, resultChan, poolWg,
                   submitPc, workerPc, workerJob, collectPc, results>>
    /\ UNCHANGED <<compilerVars, selectorVars, groupVars>>

\* Shutdown, wp.Close()
ShutdownClose ==
    /\ ctlPc = "cancelled"
    /\ queueClosed' = TRUE
    /\ ctlPc' = "shutdown"
    /\ UNCHANGED <<workers, bufferSize, jobQueue, resultChan, poolCtxDone, poolWg,
                   submitPc, workerPc, workerJob, collectPc, results>>
    /\ UNCHANGED <<compilerVars, selectorVars, groupVars>>

\* CollectAll is called
CollectAll ==
    /\ collectPc = "new"
    /\ collectPc' = "waiting"
    /\ UNCHANGED <<workers, bufferSize, jobQueue, queueClosed, resultChan, poolCtxDone,
                   poolWg, submitPc, workerPc, workerJob, ctlPc, results>>
    /\ UNCHANGED <<compilerVars, selectorVars, groupVars>>

\* CollectAll, wp.Wait() returns
CollectWait ==
    /\ collectPc = "waiting"
    /\ poolWg = 0
    /\ collectPc' = "ranging"
    /\ UNCHANGED <<workers, bufferSize, jobQueue, queueClosed, resultChan, poolCtxDone,
                   poolWg, submitPc, workerPc, workerJob, ctlPc, results>>
    /\ UNCHANGED <<compilerVars, selectorVars, groupVars>>

\* CollectAll, for result := range wp.resultChan: a result is appended, or
\* the channel is closed and empty and CollectAll returns
CollectRange ==
    /\ collectPc = "ranging"
    /\ resultChan # <<>> \/ resultClosed
    /\ IF resultChan # <<>>
       THEN /\ results' = Append(results, Head(resultChan))
            /\ resultChan' = Tail(resultChan)
            /\ UNCHANGED collectPc
       ELSE /\ collectPc' = "returned"
            /\ UNCHANGED <<results, resultChan>>
    /\ UNCHANGED <<workers, bufferSize, jobQueue, queueClosed, poolCtxDone, poolWg,
                   submitPc, workerPc, workerJob, ctlPc>>
    /\ UNCHANGED <<compilerVars, selectorVars, groupVars>>

\* New
New ==
    /\ workers \in 1..MaxWorkers
    /\ bufferSize \in 1..MaxBuffer
    /\ jobQueue = <<>>
    /\ queueClosed = FALSE
    /\ resultChan = <<>>
    /\ poolCtxDone = FALSE
    /\ poolWg = 0
    /\ submitPc = [j \in Jobs |-> "new"]
    /\ workerPc = [w \in Workers |-> IF w <= workers THEN "ranging" ELSE "none"]
    /\ workerJob = [w \in Workers |-> 0]
    /\ ctlPc = "open"
    /\ collectPc = "new"
    /\ results = <<>>

\* no worker pool
PoolIdle ==
    /\ workers = 0 /\ bufferSize = 0 /\ jobQueue = <<>> /\ queueClosed = FALSE
    /\ resultChan = <<>> /\ poolCtxDone = FALSE /\ poolWg = 0
    /\ submitPc = [j \in Jobs |-> "idle"]
    /\ workerPc = [w \in Workers |-> "none"]
    /\ workerJob = [w \in Workers |-> 0]
    /\ ctlPc = "idle" /\ collectPc = "idle" /\ results = <<>>

NextPool ==
    \/ \E j \in Jobs : SubmitCheck(j) \/ SubmitSend(j)
    \/ \E w \in Workers : WorkerReceive(w) \/ WorkerSend(w) \/ WorkerDone(w)
    \/ Close
    \/ ShutdownCancel
    \/ ShutdownClose
    \/ CollectAll
    \/ CollectWait
    \/ CollectRange

-----------------------------------------------------------------------------

\* the other programs of this module at rest
RestIdle == SelectorIdle /\ GroupIdle /\ PoolIdle

-----------------------------------------------------------------------------
(* the calls *)

\* BuildMatch storing the default alias in the caller's pattern (p.Alias = "n")
BuildMatch_DefaultsInPlace(c) ==
    /\ pc[c] = "start"
    /\ \E r \in buildMatchClause(query[c].Match, EmptyMap, <<>>) :
          /\ params' = [params EXCEPT ![c] = r.params]
          /\ bound' = [bound EXCEPT ![c] = r.bound]
          /\ matchClause' = [matchClause EXCEPT ![c] = r.text]
          /\ sb' = [sb EXCEPT ![c] =
                       IF Cat(r.text) # "" THEN r.text \o <<" ">> ELSE <<>>]
    /\ query' = [query EXCEPT ![c].Match =
                    [i \in 1..Len(query[c].Match) |->
                        [query[c].Match[i] EXCEPT !.Alias = NodeAlias(query[c].Match[i])]]]
    /\ pc' = [pc EXCEPT ![c] = "matched"]
    /\ UNCHANGED <<properties, op, whereClause, aliasesInMatch, opClause,
                   opParams, cypher>>
    /\ UNCHANGED restVars

\* buildCypherQueryForOperation up to the MATCH clause (neo4j.go:975-983)
BuildMatch(c) ==
    /\ pc[c] = "start"
    /\ \E r \in buildMatchClause(query[c].Match, EmptyMap, <<>>) :
          /\ params' = [params EXCEPT ![c] = r.params]
          /\ bound' = [bound EXCEPT ![c] = r.bound]
          /\ matchClause' = [matchClause EXCEPT ![c] = r.text]
          /\ sb' = [sb EXCEPT ![c] =
                       IF Cat(r.text) # "" THEN r.text \o <<" ">> ELSE <<>>]
    /\ pc' = [pc EXCEPT ![c] = "matched"]
    /\ UNCHANGED <<query, properties, op, whereClause, aliasesInMatch, opClause,
                   opParams, cypher>>
    /\ UNCHANGED restVars

\* BuildWhere writing to one params map that all calls share
BuildWhere_SharedParams(c) ==
    /\ pc[c] = "matched"
    /\ LET r == buildWhereClause(query[c].Where, params[c], bound[c])
       IN  /\ params' = [d \in Calls |-> r.params]
           /\ bound' = [bound EXCEPT ![c] = r.bound]
           /\ whereClause' = [whereClause EXCEPT ![c] = r.text]
           /\ sb' = [sb EXCEPT ![c] =
                        IF Cat(r.text) # "" THEN @ \o r.text \o <<" ">> ELSE @]
    /\ pc' = [pc EXCEPT ![c] = "filtered"]
    /\ UNCHANGED <<query, properties, op, matchClause, aliasesInMatch, opClause,
                   opParams, cypher>>
    /\ UNCHANGED restVars

\* the WHERE clause (neo4j.go:985-990)
BuildWhere(c) ==
    /\ pc[c] = "matched"
    /\ LET r == buildWhereClause(query[c].Where, params[c], bound[c])
       IN  /\ params' = [params EXCEPT ![c] = r.params]
           /\ bound' = [bound EXCEPT ![c] = r.bound]
           /\ whereClause' = [whereClause EXCEPT ![c] = r.text]
           /\ sb' = [sb EXCEPT ![c] =
                        IF Cat(r.text) # "" THEN @ \o r.text \o <<" ">> ELSE @]
    /\ pc' = [pc EXCEPT ![c] = "filtered"]
    /\ UNCHANGED <<query, properties, op, matchClause, aliasesInMatch, opClause,
                   opParams, cypher>>
    /\ UNCHANGED restVars

\* the operation clause, the merge of its parameters (neo4j.go:992-1032), and
\* what the client method appends to the text before it runs it
BuildOperation(c) ==
    /\ pc[c] = "filtered"
    /\ LET aliases == CollectAliases(query[c].Match)
       IN  \E r \in OpClauseGenerator(op[c], query[c], properties[c], aliases) :
              /\ aliasesInMatch' = [aliasesInMatch EXCEPT ![c] = aliases]
              /\ opClause' = [opClause EXCEPT ![c] = r.text]
              /\ opParams' = [opParams EXCEPT ![c] = r.params]
              /\ sb' = [sb EXCEPT ![c] = @ \o r.text]
              /\ params' = [params EXCEPT ![c] = MergeParams(@, r.params)]
              /\ cypher' = [cypher EXCEPT ![c] =
                               Cat(sb[c] \o r.text \o CountSuffix(op[c], query[c]))]
    /\ pc' = [pc EXCEPT ![c] = "done"]
    /\ UNCHANGED <<query, properties, op, bound, matchClause, whereClause>>
    /\ UNCHANGED restVars

Next == \E c \in Calls : BuildMatch(c) \/ BuildWhere(c) \/ BuildOperation(c)

-----------------------------------------------------------------------------
(* the inputs *)

MaxPatterns == 2     \* patterns in a Match of several patterns
MaxConds == 4        \* conditions in a Where, over its four groups
MaxOrder == 2        \* entries in OrderBy

SeqsUpTo(S, n) == UNION {[1..k -> S] : k \in 0..n}

Pattern(path, alias, labels, props, edge) ==
    [PathAlias |-> path, Alias |-> alias, Labels |-> labels,
     Properties |-> props, Edge |-> edge]

EdgePattern(alias, labels, props, dir, min, max, node) ==
    [Alias |-> alias, Labels |-> labels, Properties |-> props, Direction |-> dir,
     MinHops |-> min, MaxHops |-> max, Node |-> node]

Query(match, where, return, orderBy, skip, limit) ==
    [Match |-> match, Where |-> where, Return |-> return, OrderBy |-> orderBy,
     Skip |-> skip, Limit |-> limit]

Return(expression, alias) == [Expression |-> expression, Alias |-> alias]

Condition(alias, property, operator, value) ==
    [Alias |-> alias, Property |-> property, Operator |-> operator, Value |-> value]

Input(q, props, method) == [query |-> q, properties |-> props, method |-> method]

NameAlice == "name" :> StrVal("Alice")
NameBob == "name" :> StrVal("Bob")
NameAge == ("name" :> StrVal("Alice")) @@ ("age" :> IntVal(30))
Since == "since" :> IntVal(2020)
SinceRole == ("since" :> IntVal(2020)) @@ ("role" :> StrVal("friend"))

ReturnN == <<Return("n", "")>>

\* far nodes of an edge: none, unnamed, named, labelled, with properties, with an
\* edge, with an edge to a node that has properties and an edge
FarNodes ==
    {Nil,
     Ptr(Pattern("", "", <<>>, EmptyMap, Nil)),
     Ptr(Pattern("", "b", <<>>, EmptyMap, Nil)),
     Ptr(Pattern("", "b", <<"Person", "Manager">>, EmptyMap, Nil)),
     Ptr(Pattern("", "b", <<"Person">>, NameBob, Nil)),
     Ptr(Pattern("", "b", <<>>, EmptyMap,
                 Ptr(EdgePattern("e2", <<"LOVES">>, Since, DirectionOutgoing, Nil, Nil,
                                 Ptr(Pattern("", "c", <<>>, EmptyMap, Nil)))))),
     Ptr(Pattern("", "", <<"Person">>, NameAge,
                 Ptr(EdgePattern("", <<"LOVES">>, Since, DirectionIncoming, Ptr(2), Nil,
                                 Ptr(Pattern("", "c", <<"Person">>, NameBob,
                                             Ptr(EdgePattern("e3", <<>>, EmptyMap,
                                                             DirectionBoth, Nil, Nil,
                                                             Nil))))))))}

FarB == Ptr(Pattern("", "b", <<>>, EmptyMap, Nil))

Directions == {DirectionOutgoing, DirectionIncoming, DirectionBoth, "", "<>"}
Hops == {Nil, Ptr(2), Ptr(5)}

Edges ==
    {EdgePattern(a, l, p, DirectionOutgoing, Nil, Nil, FarB) :
        a \in {"", "e"}, l \in {<<>>, <<"KNOWS">>, <<"KNOWS", "LOVES">>},
        p \in {EmptyMap, Since, SinceRole}}
    \cup {EdgePattern("", <<"KNOWS">>, EmptyMap, d, min, max, FarB) :
             d \in Directions, min \in Hops, max \in Hops}
    \cup {EdgePattern(a, <<>>, EmptyMap, DirectionBoth, Nil, Nil, f) :
             a \in {"", "e"}, f \in FarNodes}
    \cup {EdgePattern("e", <<"KNOWS", "LOVES">>, Since, DirectionOutgoing,
                       Ptr(2), Nil, FarB),
          EdgePattern("", <<>>, EmptyMap, DirectionBoth, Nil, Ptr(5), Nil)}

\* the patterns of a Match of one pattern
Patterns ==
    {Pattern(path, a, l, p, Nil) :
        path \in {"", "path"}, a \in {"", "n", "a"},
        l \in {<<>>, <<"Person">>, <<"Person", "Manager">>},
        p \in {EmptyMap, NameAlice, NameAge}}
    \cup {Pattern("", a, <<"Person">>, p, Ptr(e)) :
             a \in {"", "a", "p"}, p \in {EmptyMap, NameAge}, e \in Edges}

\* the patterns of a Match of several patterns
FewPatterns ==
    {Pattern("", "n", <<"Person">>, NameAlice, Nil),
     Pattern("", "", <<>>, NameBob, Nil),
     Pattern("", "a", <<>>, EmptyMap, Nil),
     Pattern("path", "a", <<"Person">>, EmptyMap,
             Ptr(EdgePattern("", <<"KNOWS">>, Since, DirectionOutgoing, Nil, Nil, FarB))),
     Pattern("", "r", <<>>, Since,
             Ptr(EdgePattern("", <<>>, SinceRole, DirectionIncoming, Nil, Nil, Nil)))}

Matches ==
    {<<p>> : p \in Patterns}
    \cup {m \in SeqsUpTo(FewPatterns, MaxPatterns) : Len(m) # 1}

MatchInputs ==
    {Input(Query(m, Nil, r, <<>>, Nil, Nil), EmptyMap, "Query") :
        m \in Matches, r \in {<<>>, ReturnN}}

Conditions ==
    {Condition("n", "age", OpGreaterThan, IntVal(25)),
     Condition("n", "name", OpEqual, StrVal("Bob"))}

Groups == 1..4

\* the Where whose conditions, group by group, are the <<group, condition>> of ts
WhereOf(ts) ==
    LET G(g) == LET s == SelectSeq(ts, LAMBDA x : x[1] = g)
                IN  [i \in 1..Len(s) |-> s[i][2]]
    IN  [Filter |-> G(1), Must |-> G(2), Should |-> G(3), MustNot |-> G(4)]

Wheres ==
    {Nil} \cup
    {Ptr(WhereOf(ts)) :
        ts \in {t \in SeqsUpTo(Groups \X Conditions, MaxConds) :
                   \A i \in 1..(Len(t) - 1) : t[i][1] <= t[i + 1][1]}}

WhereInputs ==
    {Input(Query(m, w, ReturnN, <<>>, Nil, Nil), EmptyMap, "Query") :
        m \in {<<>>, <<Pattern("", "n", <<"Person">>, EmptyMap, Nil)>>,
               <<Pattern("", "n", <<"Person">>, NameAge, Nil)>>},
        w \in Wheres}

OrderItems ==
    {[Alias |-> "n", Property |-> "age", Asc |-> FALSE],
     [Alias |-> "n", Property |-> "name", Asc |-> TRUE]}

Returns ==
    {<<>>, ReturnN, <<Return("a", ""), Return("b", "")>>,
     <<Return("count(p)", "path_count")>>, <<Return("n.name", "name"), Return("n", "")>>}

OneWhere == Ptr(WhereOf(<<<<2, Condition("n", "age", OpGreaterThan, IntVal(25))>>>>))

TailInputs ==
    {Input(Query(m, w, r, o, s, l), EmptyMap, "Query") :
        m \in {<<>>, <<Pattern("", "n", <<"Person">>, EmptyMap, Nil)>>},
        w \in {Nil, OneWhere},
        r \in Returns, o \in SeqsUpTo(OrderItems, MaxOrder),
        s \in {Nil, Ptr(0), Ptr(10)}, l \in {Nil, Ptr(5)}}

Methods ==
    {"Query", "Count", "UpdateNodesByQuery", "UpdateEdgesByQuery",
     "DeleteNodesByQuery", "DeleteEdgesByQuery"}

MethodInputs ==
    {Input(Query(m, w, <<>>, <<>>, s, Nil), p, method) :
        m \in {m \in Matches : Len(m) # 1} \cup
              {<<Pattern("", a, <<"Person">>, NameAge, e)>> :
                  a \in {"", "n"},
                  e \in {Nil} \cup
                        {Ptr(EdgePattern(ea, <<"KNOWS">>, Since, DirectionOutgoing,
                                         Nil, Nil, FarB)) : ea \in {"", "e"}}},
        w \in {Nil, OneWhere}, s \in {Nil, Ptr(10)},
        p \in {EmptyMap, NameBob, NameAge},
        method \in Methods \ {"Query"}}

\* Count calls on queries that have a Return, an OrderBy, a Skip and a Limit
CountInputs ==
    {Input(Query(m, w, r, o, s, l), EmptyMap, "Count") :
        m \in {<<>>,
               <<Pattern("", "", <<>>, NameAlice, Nil)>>,
               <<Pattern("", "a", <<"Person">>, EmptyMap,
                         Ptr(EdgePattern("e", <<"KNOWS">>, EmptyMap, DirectionOutgoing,
                                         Nil, Nil, FarB)))>>},
        w \in {Nil, OneWhere},
        r \in {<<>>, <<Return("count(p)", "path_count")>>},
        o \in SeqsUpTo(OrderItems, MaxOrder),
        s \in {Nil, Ptr(10)}, l \in {Nil, Ptr(5)}}

SetNameZero == "set_name_0" :> StrVal("Carol")

\* Update calls on a query that has a property called set_name_0, inline or
\* in a condition, and on one that has none
SetNameInputs ==
    {Input(Query(<<Pattern("", "n", <<"Person">>, p, Nil)>>, w, <<>>, <<>>, Nil, Nil),
           NameBob, "UpdateNodesByQuery") :
        p \in {EmptyMap, SetNameZero},
        w \in {Nil, OneWhere,
               Ptr(WhereOf(<<<<1, Condition("n", "set_name_0", OpEqual,
                                            StrVal("Carol"))>>>>))}}

\* queries whose patterns are nodes with an alias and labels and nothing else
LabelPatterns ==
    {Pattern("", "n", <<"Person">>, EmptyMap, Nil),
     Pattern("", "m", <<"Person", "Manager">>, EmptyMap, Nil),
     Pattern("", "", <<>>, EmptyMap, Nil)}

LabelInputs ==
    {Input(Query(m, Nil, ReturnN, <<>>, Nil, Nil), EmptyMap, "Query") :
        m \in SeqsUpTo(LabelPatterns, MaxPatterns)}

TestBasic ==
    Query(<<Pattern("", "n", <<"Person">>, EmptyMap, Nil)>>, Nil, ReturnN, <<>>, Nil, Nil)

\* the values of graph.Operator, and two strings that are none of them
Operators ==
    {OpEqual, OpNotEqual, OpGreaterThan, OpGreaterThanOrEqual, OpLessThan,
     OpLessThanOrEqual, OpIn, OpContains, "LIKE", ""}

\* queries with one condition, of every operator, in a group of the Where
OperatorInputs ==
    {Input(Query(<<Pattern("", "n", <<"Person">>, EmptyMap, Nil)>>,
                 Ptr(WhereOf(<<<<g, Condition("n", "name", o, v)>>>>)),
                 ReturnN, <<>>, Nil, Nil), EmptyMap, "Query") :
        g \in {1, 3}, o \in Operators, v \in {StrVal("Alice"), IntVal(30)}}

\* the queries of the tests of buildCypherQuery
TestWithPropertyMatch ==
    Query(<<Pattern("", "n", <<"Person">>, NameAge, Nil)>>, Nil, ReturnN, <<>>, Nil, Nil)

TestWithWhereClause ==
    Query(<<Pattern("", "n", <<"Person">>, EmptyMap, Nil)>>,
          Ptr([Filter  |-> <<>>,
               Must    |-> <<Condition("n", "age", OpGreaterThan, IntVal(25))>>,
               Should  |-> <<Condition("n", "name", OpEqual, StrVal("Alice")),
                             Condition("n", "name", OpEqual, StrVal("Bob"))>>,
               MustNot |-> <<>>]),
          ReturnN, <<>>, Nil, Nil)

TestWithOrderBySkipLimit ==
    Query(<<Pattern("", "n", <<"Person">>, EmptyMap, Nil)>>, Nil, ReturnN,
          <<[Alias |-> "n", Property |-> "age", Asc |-> FALSE],
            [Alias |-> "n", Property |-> "name", Asc |-> TRUE]>>,
          Ptr(10), Ptr(5))

TestVariableLengthPath ==
    Query(<<Pattern("", "a", <<"Person">>, EmptyMap,
                    Ptr(EdgePattern("", <<"KNOWS">>, EmptyMap, DirectionOutgoing,
                                    Ptr(2), Ptr(5), FarB)))>>,
          Nil, <<Return("a", ""), Return("b", "")>>, <<>>, Nil, Nil)

TestReturnExpression ==
    Query(<<Pattern("", "p", <<>>, EmptyMap,
                    Ptr(EdgePattern("", <<>>, EmptyMap, DirectionBoth, Nil, Nil,
                                    Ptr(Pattern("", "", <<>>, EmptyMap, Nil)))))>>,
          Nil, <<Return("count(p)", "path_count")>>, <<>>, Nil, Nil)

TestInputs ==
    {Input(q, EmptyMap, "Query") :
        q \in {TestBasic, TestWithPropertyMatch, TestWithWhereClause,
               TestWithOrderBySkipLimit, TestVariableLengthPath, TestReturnExpression}}

Inputs ==
    MatchInputs \cup WhereInputs \cup TailInputs \cup MethodInputs \cup TestInputs
    \cup CountInputs \cup SetNameInputs \cup LabelInputs \cup OperatorInputs

\* the inputs two calls are run on side by side
SharedInputs ==
    {i \in MatchInputs : Len(i.query.Match) # 1 \/ i.query.Match[1].Edge = Nil}
    \cup {i \in MethodInputs : i.query.Where = Nil /\ i.query.Skip = Nil}
    \cup TestInputs

Fresh(active, inputs) ==
    \E i \in inputs :
        /\ query = [c \in Calls |-> i.query]
        /\ properties = [c \in Calls |-> i.properties]
        /\ op = [c \in Calls |-> i.method]
        /\ pc = [c \in Calls |-> IF c \in active THEN "start" ELSE "idle"]
        /\ params = [c \in Calls |-> EmptyMap]
        /\ sb = [c \in Calls |-> <<>>]
        /\ bound = [c \in Calls |-> <<>>]
        /\ matchClause = [c \in Calls |-> <<>>]
        /\ whereClause = [c \in Calls |-> <<>>]
        /\ aliasesInMatch = [c \in Calls |-> <<>>]
        /\ opClause = [c \in Calls |-> <<>>]
        /\ opParams = [c \in Calls |-> EmptyMap]
        /\ cypher = [c \in Calls |-> ""]

\* one call, on any input
Init == Fresh({1}, Inputs) /\ RestIdle

Spec == Init /\ [][Next]_vars

\* two calls on the same input
InitTwo == Fresh(Calls, SharedInputs) /\ RestIdle

SpecTwo == InitTwo /\ [][Next]_vars

-----------------------------------------------------------------------------
\* A client method run in one piece: every (text, parameters) that
\* buildCypherQueryForOperation and the count the method appends can give
buildCypherQueryForOperation(q, props, method) ==
    UNION {
        LET w == buildWhereClause(q.Where, m.params, m.bound)
            before == (IF Cat(m.text) # "" THEN m.text \o <<" ">> ELSE <<>>)
                      \o (IF Cat(w.text) # "" THEN w.text \o <<" ">> ELSE <<>>)
        IN  {[cypher |-> Cat(before \o o.text \o CountSuffix(method, q)),
              params |-> MergeParams(w.params, o.params)] :
                o \in OpClauseGenerator(method, q, props, CollectAliases(q.Match))}
        : m \in buildMatchClause(q.Match, EmptyMap, <<>>)}

\* the inputs of two calls that run side by side on inputs of their own
PairInputs ==
    {Input(Query(<<Pattern("", "n", <<"Person">>, NameAlice, Nil)>>,
                 Ptr(WhereOf(<<<<2, Condition("n", "age", OpGreaterThan, IntVal(25))>>>>)),
                 ReturnN, <<>>, Ptr(10), Nil), EmptyMap, "Query"),
     Input(Query(<<Pattern("", "n", <<"Person">>, NameBob, Nil)>>,
                 Ptr(WhereOf(<<<<1, Condition("n", "name", OpEqual, StrVal("Alice"))>>,
                               <<3, Condition("n", "age", OpLessThan, IntVal(40))>>>>)),
                 ReturnN, <<>>, Ptr(0), Ptr(5)), EmptyMap, "Query"),
     Input(Query(<<Pattern("", "", <<>>, NameAge, Nil)>>, OneWhere, <<>>, <<>>, Nil, Nil),
           NameBob, "UpdateNodesByQuery"),
     Input(Query(<<Pattern("", "a", <<"Person">>, EmptyMap,
                           Ptr(EdgePattern("e", <<"KNOWS">>, Since, DirectionOutgoing,
                                           Nil, Nil, FarB)))>>,
                 Nil, <<>>, <<>>, Nil, Nil), SinceRole, "UpdateEdgesByQuery"),
     Input(Query(<<Pattern("", "n", <<>>, NameBob, Nil)>>, Nil, <<>>, <<>>, Nil, Nil),
           EmptyMap, "DeleteNodesByQuery"),
     Input(Query(<<Pattern("", "a", <<>>, EmptyMap,
                           Ptr(EdgePattern("e", <<>>, Since, DirectionBoth,
                                           Nil, Nil, Nil)))>>,
                 Nil, <<>>, <<>>, Nil, Nil), EmptyMap, "DeleteEdgesByQuery"),
     Input(Query(<<>>, OneWhere, <<>>, <<>>, Nil, Nil), EmptyMap, "Count")}
    \cup TestInputs

InitPair ==
    \E i \in PairInputs, j \in PairInputs :
        /\ query = [c \in Calls |-> IF c = 1 THEN i.query ELSE j.query]
        /\ properties = [c \in Calls |-> IF c = 1 THEN i.properties ELSE j.properties]
        /\ op = [c \in Calls |-> IF c = 1 THEN i.method ELSE j.method]
        /\ pc = [c \in Calls |-> "start"]
        /\ params = [c \in Calls |-> EmptyMap]
        /\ sb = [c \in Calls |-> <<>>]
        /\ bound = [c \in Calls |-> <<>>]
        /\ matchClause = [c \in Calls |-> <<>>]
        /\ whereClause = [c \in Calls |-> <<>>]
        /\ aliasesInMatch = [c \in Calls |-> <<>>]
        /\ opClause = [c \in Calls |-> <<>>]
        /\ opParams = [c \in Calls |-> EmptyMap]
        /\ cypher = [c \in Calls |-> ""]
        /\ RestIdle

\* two calls, each on any input, their steps interleaved
SpecPair == InitPair /\ [][Next]_vars

-----------------------------------------------------------------------------
(* the inputs of buildNodeMatchClause *)

NodeSelector(labels, props) == [Labels |-> labels, Properties |-> props]

NameAgeCity ==
    ("name" :> StrVal("Alice")) @@ ("age" :> IntVal(30)) @@ ("city" :> StrVal("Oslo"))

NodeSelectors ==
    {Nil} \cup
    {Ptr(NodeSelector(l, p)) :
        l \in {<<>>, <<"Person">>, <<"Person", "Manager">>},
        p \in {EmptyMap, NameAlice, NameAge, NameAgeCity}}

\* no compile call
CompilerIdle == Fresh({}, {Input(TestBasic, EmptyMap, "Query")})

InitSelector ==
    /\ CompilerIdle /\ GroupIdle /\ PoolIdle
    /\ nodeAlias \in {"a", "b", "n"}
    /\ nodeSelector \in NodeSelectors
    /\ nodePc = "start"
    /\ nodeMatch = <<>>
    /\ nodeParams = EmptyMap

NextSelector == BuildNodeMatch

\* one call of buildNodeMatchClause, on any alias and selector
SpecSelector == InitSelector /\ [][NextSelector]_vars

InitGroup == CompilerIdle /\ SelectorIdle /\ PoolIdle /\ NewTaskGroup

\* a task group, MaxTasks tasks handed to Go one after the other, then Wait
SpecGroup == InitGroup /\ [][NextGroup]_vars

InitPool == CompilerIdle /\ SelectorIdle /\ GroupIdle /\ New

\* a worker pool: Submit calls from several goroutines, the workers, Close or
\* Shutdown, and CollectAll
SpecPool == InitPool /\ [][NextPool]_vars

\* the same with the goroutines scheduled: a call that has started and a
\* worker take their steps when they can; when Submit, Close, Shutdown and
\* CollectAll are called is up to the caller
SpecPoolFair ==
    /\ SpecPool
    /\ \A j \in Jobs : WF_vars(SubmitSend(j))
    /\ \A w \in Workers :
          WF_vars(WorkerReceive(w)) /\ WF_vars(WorkerSend(w)) /\ WF_vars(WorkerDone(w))
    /\ WF_vars(ShutdownClose)
    /\ WF_vars(CollectWait)
    /\ WF_vars(CollectRange)

-----------------------------------------------------------------------------
(* what the claims speak of *)

Done(c) == pc[c] = "done"

\* the number of places where the text t holds the pieces pat in a row
Occurrences(t, pat) ==
    Cardinality({i \in 1..(Len(t) - Len(pat) + 1) : SubSeq(t, i, i + Len(pat) - 1) = pat})

\* the keys of the inline property maps of a Match, node maps and edge maps
InlineSites(match) ==
    UNION {
        {[pattern |-> i, part |-> "node", alias |-> NodeAlias(match[i]), key |-> k,
          value |-> match[i].Properties[k]] : k \in DOMAIN match[i].Properties}
        \cup
        (IF match[i].Edge = Nil THEN {}
         ELSE {[pattern |-> i, part |-> "edge", alias |-> EdgeAlias(Deref(match[i].Edge)),
                key |-> k, value |-> Deref(match[i].Edge).Properties[k]] :
                  k \in DOMAIN Deref(match[i].Edge).Properties})
        : i \in 1..Len(match)}

-----------------------------------------------------------------------------
(* C1 *)

\* C1: two compile calls on the same input (the same Query, the same Set
\* property map, the same operation) return the same query text and the same
\* parameter map, whatever order the runtime ranges over the Properties maps in.
C1_Determinism ==
    (/\ Done(1) /\ Done(2)
     /\ query[1] = query[2] /\ properties[1] = properties[2] /\ op[1] = op[2])
    => (cypher[1] = cypher[2] /\ params[1] = params[2])

-----------------------------------------------------------------------------
(* C2 *)

\* C2: once a Query is compiled, every place a literal value was injected
\* (inline node property, inline edge property, Where condition) refers to a
\* parameter name that no other such place refers to, and the returned map
\* binds that name to the value of that place.
C2_CollisionFreeBinding ==
    \A c \in Calls :
        Done(c) =>
            /\ \A i, j \in 1..Len(bound[c]) : i # j => bound[c][i][1] # bound[c][j][1]
            /\ \A i \in 1..Len(bound[c]) :
                  /\ bound[c][i][1] \in DOMAIN params[c]
                  /\ params[c][bound[c][i][1]] = bound[c][i][2]

-----------------------------------------------------------------------------
(* C3 *)

\* C3: for every node or edge inline property map with (defaulted) alias A,
\* each key K adds exactly one entry to the parameter map, named A_K and bound
\* to the key's value, and the pattern text holds "K: $A_K" once for that key.
C3_OneParameterPerInlineKey ==
    \A c \in Calls :
        pc[c] = "matched" =>
            LET sites == InlineSites(query[c].Match)
            IN  /\ Cardinality(DOMAIN params[c]) = Cardinality(sites)
                /\ \A s \in sites :
                      LET name == s.alias \o "_" \o s.key
                      IN  /\ name \in DOMAIN params[c]
                          /\ params[c][name] = s.value
                          /\ Occurrences(matchClause[c], <<s.key, ": $", name>>)
                                = Cardinality({t \in sites :
                                                  t.alias = s.alias /\ t.key = s.key})

-----------------------------------------------------------------------------
(* C4 *)

\* the pieces of a MATCH text that are not names
Punctuation ==
    {"MATCH ", ", ", " = ", "(", ")", "[", "]", ":" \o BQ, BQ, " {", "}", ": $",
     ":", "|", "*", "..", "-", "<-", "->"}

\* The aliases in the text t from piece i on, in order: the name that opens a
\* node "(" or an edge "[", and, if withPath, the name a path is assigned to.
RECURSIVE TextAliases(_, _, _)
TextAliases(t, i, withPath) ==
    IF i > Len(t) THEN <<>>
    ELSE (IF i > 1 /\ t[i - 1] \in {"(", "["} /\ t[i] \notin Punctuation THEN <<t[i]>>
          ELSE IF withPath /\ i < Len(t) /\ t[i] \notin Punctuation /\ t[i + 1] = " = "
               THEN <<t[i]>>
               ELSE <<>>)
         \o TextAliases(t, i + 1, withPath)

OrDefault(alias, default) == IF alias = "" THEN default ELSE alias

\* the list C4 describes: per pattern the node alias (n), the edge alias (r) if
\* there is an Edge, the far node's alias (m) if the Edge has a Node
RECURSIVE ClaimedAliases(_)
ClaimedAliases(match) ==
    IF match = <<>> THEN <<>>
    ELSE LET p == Head(match)
             edge == IF p.Edge = Nil THEN <<>>
                     ELSE <<OrDefault(p.Edge[1].Alias, "r")>>
                          \o (IF p.Edge[1].Node = Nil THEN <<>>
                              ELSE <<OrDefault(p.Edge[1].Node[1].Alias, "m")>>)
         IN  <<OrDefault(p.Alias, "n")>> \o edge \o ClaimedAliases(Tail(match))

-----------------------------------------------------------------------------
(* C5 *)

\* C5: the query of TestBuildCypherQuery_WithPropertyMatch always compiles to
\* the text with name before age, and to the parameters n_name and n_age.
C5_PropertyMatchText ==
    \A c \in Calls :
        (Done(c) /\ op[c] = "Query" /\ query[c] = TestWithPropertyMatch) =>
            /\ cypher[c] = "MATCH (n:" \o BQ \o "Person" \o BQ
                              \o " {name: $n_name, age: $n_age}) RETURN n"
            /\ params[c] = ("n_name" :> StrVal("Alice")) @@ ("n_age" :> IntVal(30))

-----------------------------------------------------------------------------
(* C6 *)

\* C6: an edge with no alias, type KNOWS, outgoing, MinHops 2 and MaxHops 5 is
\* rendered "-[:KNOWS*2..5]->", with no alias in the brackets, and the query
\* of TestBuildCypherQuery_VariableLengthPath compiles to the text of the test.
C6_VariableLengthPathText ==
    \A c \in Calls :
        (Done(c) /\ op[c] = "Query" /\ query[c] = TestVariableLengthPath) =>
            /\ Occurrences(matchClause[c], <<"-", "[", ":", "KNOWS", "*", "2", "..", "5",
                                            "]", "->">>) = 1
            /\ cypher[c] = "MATCH (a:" \o BQ \o "Person" \o BQ
                              \o ")-[:KNOWS*2..5]->(b) RETURN a, b"

-----------------------------------------------------------------------------
(* C7 *)

\* C7: the query of TestBuildCypherQuery_ReturnExpression (an unnamed edge in
\* both directions to an unnamed node) compiles to the text of the test, with
\* no alias for the edge or the far node, and to no parameters.
C7_ReturnExpressionText ==
    \A c \in Calls :
        (Done(c) /\ op[c] = "Query" /\ query[c] = TestReturnExpression) =>
            /\ cypher[c] = "MATCH (p)-[]-() RETURN count(p) AS path_count"
            /\ params[c] = EmptyMap

-----------------------------------------------------------------------------
(* C8 *)

\* strings.Join as a string
RECURSIVE JoinString(_, _)
JoinString(strs, sep) ==
    IF strs = <<>> THEN ""
    ELSE IF Len(strs) = 1 THEN strs[1]
    ELSE strs[1] \o sep \o JoinString(Tail(strs), sep)

TailKeywords == <<"RETURN ", " ORDER BY ", " SKIP $skip", " LIMIT $limit">>

KeywordRank(piece) == CHOOSE k \in 1..4 : TailKeywords[k] = piece

KeywordPositions(t) == {i \in 1..Len(t) : \E k \in 1..4 : TailKeywords[k] = t[i]}

\* the text of t after piece i, up to the next keyword or the end
RECURSIVE UpToKeyword(_, _)
UpToKeyword(t, i) ==
    IF i + 1 > Len(t) \/ (i + 1) \in KeywordPositions(t) THEN ""
    ELSE t[i + 1] \o UpToKeyword(t, i + 1)

C8_OrderEntries(orderBy) ==
    JoinString([i \in 1..Len(orderBy) |->
                   orderBy[i].Alias \o "." \o orderBy[i].Property
                   \o (IF orderBy[i].Asc THEN " ASC" ELSE " DESC")], ", ")

\* C8: in the text of the Return operation the keywords come in the order
\* RETURN, ORDER BY, SKIP, LIMIT; ORDER BY lists "<alias>.<property> ASC|DESC"
\* in OrderBy order (DESC iff Asc is false); "SKIP $skip" is there, and skip is
\* bound to the Skip value, iff Skip is set; the same for LIMIT and limit; no
\* other tail parameter is bound.
C8_ReturnTail ==
    \A c \in Calls :
        (Done(c) /\ op[c] = "Query") =>
            LET t == opClause[c]
                q == query[c]
                K == KeywordPositions(t)
            IN  /\ 1 \in K /\ t[1] = "RETURN "
                /\ \A i, j \in K : i < j => KeywordRank(t[i]) < KeywordRank(t[j])
                /\ Occurrences(t, <<" ORDER BY ">>) = (IF Len(q.OrderBy) > 0 THEN 1 ELSE 0)
                /\ \A i \in K : t[i] = " ORDER BY " =>
                      UpToKeyword(t, i) = C8_OrderEntries(q.OrderBy)
                /\ Occurrences(t, <<" SKIP $skip">>) = (IF q.Skip # Nil THEN 1 ELSE 0)
                /\ Occurrences(t, <<" LIMIT $limit">>) = (IF q.Limit # Nil THEN 1 ELSE 0)
                /\ \A i \in K : t[i] \in {" SKIP $skip", " LIMIT $limit"} =>
                      UpToKeyword(t, i) = ""
                /\ DOMAIN opParams[c] =
                      (IF q.Skip # Nil THEN {"skip"} ELSE {})
                      \cup (IF q.Limit # Nil THEN {"limit"} ELSE {})
                /\ q.Skip # Nil =>
                      /\ opParams[c]["skip"] = IntVal(q.Skip[1])
                      /\ params[c]["skip"] = IntVal(q.Skip[1])
                /\ q.Limit # Nil =>
                      /\ opParams[c]["limit"] = IntVal(q.Limit[1])
                      /\ params[c]["limit"] = IntVal(q.Limit[1])

\* the query of TestBuildCypherQuery_WithOrderBySkipLimit, compiled to the
\* text and the parameters the test expects
C8_Witness ==
    \E c \in Calls :
        /\ Done(c) /\ op[c] = "Query"
        /\ query[c] = TestWithOrderBySkipLimit
        /\ cypher[c] = "MATCH (n:" \o BQ \o "Person" \o BQ \o ") RETURN n"
                          \o " ORDER BY n.age DESC, n.name ASC SKIP $skip LIMIT $limit"
        /\ params[c] = ("skip" :> IntVal(10)) @@ ("limit" :> IntVal(5))

-----------------------------------------------------------------------------
(* C9 *)

WhereIsEmpty(where) ==
    \/ where = Nil
    \/ /\ where[1].Filter = <<>> /\ where[1].Must = <<>>
       /\ where[1].Should = <<>> /\ where[1].MustNot = <<>>

\* C9: with the Where absent, or present with its four groups empty, the text
\* has no WHERE and the Where stage binds no parameter; with a non-empty group
\* the text has exactly one WHERE, after the MATCH text and before the
\* operation clause.
C9_WhereOnlyWhenNonEmpty ==
    \A c \in Calls :
        Done(c) =>
            IF WhereIsEmpty(query[c].Where)
            THEN /\ Occurrences(sb[c], <<"WHERE ">>) = 0
                 /\ whereClause[c] = <<>>
                 /\ Len(bound[c]) = Cardinality(InlineSites(query[c].Match))
            ELSE /\ Occurrences(sb[c], <<"WHERE ">>) = 1
                 /\ whereClause[c] # <<>> /\ whereClause[c][1] = "WHERE "
                 /\ sb[c] = (IF matchClause[c] = <<>> THEN <<>>
                             ELSE matchClause[c] \o <<" ">>)
                            \o whereClause[c] \o <<" ">> \o opClause[c]

\* a finished call whose Where is there with four empty groups, on a Match
\* that binds parameters
C9_Witness ==
    \E c \in Calls :
        /\ Done(c)
        /\ query[c].Where # Nil /\ WhereIsEmpty(query[c].Where)
        /\ Len(query[c].Match) = 1 /\ Len(bound[c]) = 2

-----------------------------------------------------------------------------
(* C10 *)

\* C10: the WHERE expression is made of the non-empty groups in the order
\* Filter, Must, Should, MustNot, joined by " AND ": Filter joined by AND
\* without parentheses, Must by AND in parentheses, Should by OR in
\* parentheses, MustNot by AND in parentheses after "NOT "; the conditions keep
\* their order in each group and the parameters are bound in that overall order.
C10_WhereExpression ==
    \A c \in Calls :
        (pc[c] \in {"filtered", "done"} /\ query[c].Where # Nil) =>
            LET w   == query[c].Where[1]
                all == w.Filter \o w.Must \o w.Should \o w.MustNot
                k0  == Len(bound[c]) - Len(all)
                cond(i) == all[i].Alias \o "." \o all[i].Property
                           \o OperatorToken(all[i].Operator) \o "$" \o bound[c][k0 + i][1]
                conds(from, n) == [i \in 1..n |-> cond(from + i)]
                f == JoinString(conds(0, Len(w.Filter)), " AND ")
                m == "(" \o JoinString(conds(Len(w.Filter), Len(w.Must)), " AND ") \o ")"
                s == "(" \o JoinString(conds(Len(w.Filter) + Len(w.Must), Len(w.Should)),
                                       " OR ") \o ")"
                n == "NOT (" \o JoinString(conds(Len(all) - Len(w.MustNot), Len(w.MustNot)),
                                           " AND ") \o ")"
                groups == (IF w.Filter # <<>> THEN <<f>> ELSE <<>>)
                          \o (IF w.Must # <<>> THEN <<m>> ELSE <<>>)
                          \o (IF w.Should # <<>> THEN <<s>> ELSE <<>>)
                          \o (IF w.MustNot # <<>> THEN <<n>> ELSE <<>>)
            IN  /\ k0 >= 0
                /\ \A i \in 1..Len(all) : bound[c][k0 + i][2] = all[i].Value
                /\ Cat(whereClause[c]) =
                      (IF groups = <<>> THEN "" ELSE "WHERE " \o JoinString(groups, " AND "))

\* a finished call whose Where has conditions in all four groups
C10_Witness ==
    \E c \in Calls :
        /\ Done(c)
        /\ query[c].Where # Nil
        /\ query[c].Where[1].Filter # <<>> /\ query[c].Where[1].Must # <<>>
        /\ query[c].Where[1].Should # <<>> /\ query[c].Where[1].MustNot # <<>>

-----------------------------------------------------------------------------
(* C11 *)

\* the pieces of a text that hold the word w
KeywordPieces(w) ==
    CASE w = "DELETE" -> {"DELETE ", "DETACH DELETE "}
      [] w = "SET" -> {"SET "}

\* C11: for a query with a non-empty Match, the text of DeleteNodesByQuery
\* holds "DETACH DELETE <a>", <a> being the node alias of the first Match
\* pattern ("n" when it has none), and every DELETE in the text is the one
\* of that DETACH DELETE.
C11_DetachDelete ==
    \A c \in Calls :
        (Done(c) /\ op[c] = "DeleteNodesByQuery" /\ Len(query[c].Match) > 0) =>
            LET a == OrDefault(query[c].Match[1].Alias, "n")
                t == sb[c]
            IN  /\ Occurrences(t, <<"DETACH DELETE ", a>>) = 1
                /\ \A i \in 1..Len(t) :
                      t[i] \in KeywordPieces("DELETE") =>
                          /\ t[i] = "DETACH DELETE "
                          /\ i < Len(t) /\ t[i + 1] = a
                /\ cypher[c] = Cat(t) \o " RETURN count(" \o a \o ")"

\* a finished DeleteNodesByQuery on a pattern with no alias that has an edge
C11_Witness ==
    \E c \in Calls :
        /\ Done(c) /\ op[c] = "DeleteNodesByQuery"
        /\ Len(query[c].Match) = 1
        /\ query[c].Match[1].Alias = "" /\ query[c].Match[1].Edge # Nil
        /\ opClause[c] = <<"DETACH DELETE ", "n">>

-----------------------------------------------------------------------------
(* C12 *)

\* the text buildCypherQueryForOperation has written before the operation clause
BeforeOperation(c) ==
    (IF matchClause[c] = <<>> THEN <<>> ELSE matchClause[c] \o <<" ">>)
    \o (IF whereClause[c] = <<>> THEN <<>> ELSE whereClause[c] \o <<" ">>)

\* C12: with an empty property map the Set clause is the empty text with an
\* empty parameter map, and the text UpdateNodesByQuery or UpdateEdgesByQuery
\* runs has no SET: it is the MATCH and WHERE text followed by the count.
C12_EmptySetClause ==
    \A c \in Calls :
        (/\ Done(c) /\ op[c] \in {"UpdateNodesByQuery", "UpdateEdgesByQuery"}
         /\ DOMAIN properties[c] = {}) =>
            /\ opClause[c] = <<>>
            /\ opParams[c] = EmptyMap
            /\ \A i \in 1..Len(sb[c]) : sb[c][i] \notin KeywordPieces("SET")
            /\ sb[c] = BeforeOperation(c)
            /\ \E a \in {"*"} \cup {aliasesInMatch[c][i] : i \in 1..Len(aliasesInMatch[c])} :
                  cypher[c] = Cat(BeforeOperation(c)) \o " RETURN count(" \o a \o ")"
            /\ DOMAIN params[c] = {bound[c][i][1] : i \in 1..Len(bound[c])}

\* a finished UpdateEdgesByQuery with no properties to set, whose first
\* pattern has a named edge (so that the Set strategy is called)
C12_Witness ==
    \E c \in Calls :
        /\ Done(c) /\ op[c] = "UpdateEdgesByQuery"
        /\ DOMAIN properties[c] = {}
        /\ FirstEdgeAlias(query[c]) = "e"
        /\ query[c].Where # Nil

-----------------------------------------------------------------------------
(* C13 *)

\* C13: the tail of Count is "RETURN count(<a>)", <a> being the first alias
\* of the alias list, when Match is non-empty, and "RETURN count(*)" when it
\* is empty; Count binds no tail parameter, and the text is the MATCH and
\* WHERE text followed by that tail whatever the Return, OrderBy, Skip and
\* Limit of the Query are.
C13_CountTail ==
    \A c \in Calls :
        (Done(c) /\ op[c] = "Count") =>
            LET tail == IF Len(query[c].Match) > 0
                        THEN "RETURN count(" \o ClaimedAliases(query[c].Match)[1] \o ")"
                        ELSE "RETURN count(*)"
            IN  /\ Cat(opClause[c]) = tail
                /\ opParams[c] = EmptyMap
                /\ cypher[c] = Cat(BeforeOperation(c)) \o tail
                /\ DOMAIN params[c] = {bound[c][i][1] : i \in 1..Len(bound[c])}
                /\ \A i \in 1..Len(sb[c]) :
                      sb[c][i] \notin {" ORDER BY ", " SKIP $skip", " LIMIT $limit", " AS "}

\* a finished Count on a query with a Match, a Return, an OrderBy, a Skip and a Limit
C13_Witness ==
    \E c \in Calls :
        /\ Done(c) /\ op[c] = "Count"
        /\ Len(query[c].Match) > 0 /\ query[c].Return # <<>>
        /\ Len(query[c].OrderBy) = MaxOrder
        /\ query[c].Skip # Nil /\ query[c].Limit # Nil
        /\ cypher[c] = "MATCH (a:" \o BQ \o "Person" \o BQ
                          \o ")-[e:KNOWS]->(b) WHERE (n.age > $n_age) RETURN count(a)"

-----------------------------------------------------------------------------
(* C14 *)

\* the names the Match and Where stages of call c have bound
BoundNames(c) == {bound[c][i][1] : i \in 1..Len(bound[c])}

\* the value the Match and Where stages of call c left bound to name
LastBound(c, name) ==
    LET is == {i \in 1..Len(bound[c]) : bound[c][i][1] = name}
    IN  bound[c][CHOOSE i \in is : \A j \in is : j <= i][2]

\* C14: the names the operation clause binds (skip, limit, the names of the
\* Set strategy) are none of the names the Match and Where stages bound, so
\* the merge overwrites no Match or Where binding and the merged map holds
\* the entries of the two maps side by side.
C14_OperationNamesDisjoint ==
    \A c \in Calls :
        Done(c) =>
            /\ DOMAIN opParams[c] \cap BoundNames(c) = {}
            /\ \A name \in BoundNames(c) : params[c][name] = LastBound(c, name)
            /\ \A name \in DOMAIN opParams[c] : params[c][name] = opParams[c][name]
            /\ Cardinality(DOMAIN params[c])
                  = Cardinality(BoundNames(c)) + Cardinality(DOMAIN opParams[c])

-----------------------------------------------------------------------------
(* C15 *)

\* C15: no step of a compile call, whichever the operation, changes the
\* caller's Query (its Match patterns and their Properties maps, its Where
\* groups, Return, OrderBy, Skip, Limit) or the Set property map.
C15_CallerValuesUnchanged ==
    [][query' = query /\ properties' = properties]_vars

\* a finished Update call that had defaults to fill in (a pattern and an
\* edge with no alias), inline properties to bind and properties to set
C15_Witness ==
    \E c \in Calls :
        /\ Done(c) /\ op[c] = "UpdateNodesByQuery"
        /\ Len(query[c].Match) = 1 /\ query[c].Match[1].Alias = ""
        /\ query[c].Match[1].Edge # Nil /\ Deref(query[c].Match[1].Edge).Alias = ""
        /\ DOMAIN query[c].Match[1].Properties # {}
        /\ DOMAIN properties[c] # {} /\ DOMAIN opParams[c] # {}
        /\ query[c].Where # Nil

-----------------------------------------------------------------------------
(* C16 *)

\* C16: of two compile calls whose steps interleave in any way, each returns
\* a text and a parameter map that it returns when run alone; a call that has
\* not started has an empty map and an empty buffer whatever the other call
\* has done, and every name in a call's map was bound by that call.
C16_CallsDoNotInterfere ==
    \A c \in Calls :
        /\ pc[c] = "start" => (params[c] = EmptyMap /\ sb[c] = <<>>)
        /\ DOMAIN params[c] \subseteq BoundNames(c) \cup DOMAIN opParams[c]
        /\ Done(c) =>
              [cypher |-> cypher[c], params |-> params[c]]
                 \in buildCypherQueryForOperation(query[c], properties[c], op[c])

\* two finished calls on different queries whose maps bind one name to
\* different values
C16_Witness ==
    /\ Done(1) /\ Done(2)
    /\ query[1] # query[2]
    /\ \E name \in DOMAIN params[1] \cap DOMAIN params[2] :
          params[1][name] # params[2][name]

-----------------------------------------------------------------------------
(* C17 *)

\* ":`L1`:`L2`...:`Lk`" for the labels L1..Lk
RECURSIVE C17_Labels(_)
C17_Labels(labels) ==
    IF labels = <<>> THEN ""
    ELSE ":" \o BQ \o Head(labels) \o BQ \o C17_Labels(Tail(labels))

\* a pattern that is a node with an alias and labels and nothing else
IsBareNode(p) == p.PathAlias = "" /\ DOMAIN p.Properties = {} /\ p.Edge = Nil

\* C17: a node pattern with alias A, labels L1..Lk and no properties or edge
\* renders as "(A:`L1`:`L2`...:`Lk`)", labels in declaration order (A being
\* "n" when the alias is empty); several patterns are joined by ", " after
\* one leading "MATCH "; such a query binds no parameters; the query of
\* TestBuildCypherQuery_Basic compiles to "MATCH (n:`Person`) RETURN n", {}.
C17_BareNodePatterns ==
    \A c \in Calls :
        (/\ Done(c) /\ op[c] = "Query" /\ Len(query[c].Match) > 0
         /\ \A i \in 1..Len(query[c].Match) : IsBareNode(query[c].Match[i])) =>
            LET match == query[c].Match
                node(i) == "(" \o OrDefault(match[i].Alias, "n")
                           \o C17_Labels(match[i].Labels) \o ")"
            IN  /\ Cat(matchClause[c])
                      = "MATCH " \o JoinString([i \in 1..Len(match) |-> node(i)], ", ")
                /\ Occurrences(sb[c], <<"MATCH ">>) = 1
                /\ (query[c].Where = Nil) => (bound[c] = <<>> /\ params[c] = opParams[c])
                /\ (query[c].Where = Nil /\ query[c].Skip = Nil /\ query[c].Limit = Nil)
                      => params[c] = EmptyMap
                /\ query[c] = TestBasic =>
                      cypher[c] = "MATCH (n:" \o BQ \o "Person" \o BQ \o ") RETURN n"

\* a finished call on two patterns, one of them with two labels
C17_Witness ==
    \E c \in Calls :
        /\ Done(c) /\ op[c] = "Query"
        /\ cypher[c] = "MATCH (n:" \o BQ \o "Person" \o BQ \o "), (m:" \o BQ \o "Person"
                          \o BQ \o ":" \o BQ \o "Manager" \o BQ \o ") RETURN n"
        /\ params[c] = EmptyMap

-----------------------------------------------------------------------------
(* C18 *)

\* the names a text refers to, in order: the pieces that follow a "$"
RECURSIVE DollarNames(_, _)
DollarNames(t, i) ==
    IF i > Len(t) THEN <<>>
    ELSE (IF i > 1 /\ t[i - 1] = "$" THEN <<t[i]>> ELSE <<>>) \o DollarNames(t, i + 1)

\* C18: a condition's parameter name is Alias_Property if the shared map
\* (which holds the Match stage's bindings) does not have that name yet, and
\* otherwise Alias_Property_k for the smallest k >= 1 it does not have; when
\* the conditions are rendered the map has one entry more per condition, the
\* bindings made before are as they were, and each condition's text refers
\* to the name that is bound to its own Value.
C18_ConditionParameterNames ==
    \A c \in Calls :
        (pc[c] = "filtered" /\ query[c].Where # Nil) =>
            LET w      == query[c].Where[1]
                all    == w.Filter \o w.Must \o w.Should \o w.MustNot
                k0     == Len(bound[c]) - Len(all)
                name(i) == bound[c][k0 + i][1]
                before == {bound[c][j][1] : j \in 1..k0}
                taken(i) == before \cup {name(j) : j \in 1..(i - 1)}
                base(i) == all[i].Alias \o "_" \o all[i].Property
                numbered(i, k) == base(i) \o "_" \o Itoa(k)
                lastBefore(n) ==
                    LET is == {j \in 1..k0 : bound[c][j][1] = n}
                    IN  bound[c][CHOOSE j \in is : \A l \in is : l <= j][2]
            IN  /\ k0 >= 0
                /\ \A i \in 1..Len(all) :
                      /\ IF base(i) \notin taken(i) THEN name(i) = base(i)
                         ELSE \E k \in 1..Len(bound[c]) :
                                 /\ name(i) = numbered(i, k)
                                 /\ numbered(i, k) \notin taken(i)
                                 /\ \A j \in 1..(k - 1) : numbered(i, j) \in taken(i)
                      /\ name(i) \in DOMAIN params[c]
                      /\ params[c][name(i)] = all[i].Value
                /\ Cardinality(DOMAIN params[c]) = Cardinality(before) + Len(all)
                /\ \A n \in before : params[c][n] = lastBefore(n)
                /\ DollarNames(whereClause[c], 1) = [i \in 1..Len(all) |-> name(i)]

\* the Where stage done on a Match that bound n_age, with conditions on n.age
\* that were given the names n_age_1 and n_age_2
C18_Witness ==
    \E c \in Calls :
        /\ pc[c] = "filtered"
        /\ {"n_age", "n_age_1", "n_age_2"} \subseteq DOMAIN params[c]
        /\ params[c]["n_age"] = IntVal(30)
        /\ params[c]["n_age_2"] = IntVal(25)

-----------------------------------------------------------------------------
(* C19 *)

\* the token C19 gives for an operator
C19_Token(operator) ==
    CASE operator = "=" -> "="
      [] operator = "!=" -> "<>"
      [] operator = ">" -> ">"
      [] operator = ">=" -> ">="
      [] operator = "<" -> "<"
      [] operator = "<=" -> "<="
      [] operator = "IN" -> "IN"
      [] operator = "CONTAINS" -> "CONTAINS"
      [] OTHER -> "="

\* a value as it would read in a text
ValueText(v) == IF v[1] = "int" THEN Itoa(v[2]) ELSE v[2]

\* C19: every condition renders as "<Alias>.<Property> <token> $<param>", the
\* token being =, <>, >, >=, <, <=, IN, CONTAINS for the eight operators and =
\* for any other operator value; every condition is rendered, whatever its
\* operator, and the Value is not in the text.
C19_ConditionText ==
    \A c \in Calls :
        (pc[c] \in {"filtered", "done"} /\ query[c].Where # Nil) =>
            LET w   == query[c].Where[1]
                all == w.Filter \o w.Must \o w.Should \o w.MustNot
                t   == whereClause[c]
                starts == {i \in 1..Len(t) : i + 1 <= Len(t) /\ t[i + 1] = "."}
                nth(i) == CHOOSE s \in starts :
                              Cardinality({r \in starts : r < s}) = i - 1
            IN  /\ Cardinality(starts) = Len(all)
                /\ \A i \in 1..Len(all) :
                      /\ Cat(SubSeq(t, nth(i), nth(i) + 5))
                            = all[i].Alias \o "." \o all[i].Property \o " "
                              \o C19_Token(all[i].Operator) \o " $" \o t[nth(i) + 5]
                      /\ t[nth(i) + 5] \in DOMAIN params[c]
                      /\ \A j \in 1..Len(t) : t[j] # ValueText(all[i].Value)

\* a finished call with an operator that is none of the eight, rendered as "="
C19_Witness ==
    \E c \in Calls :
        /\ Done(c)
        /\ query[c].Where # Nil /\ Len(query[c].Where[1].Filter) = 1
        /\ query[c].Where[1].Filter[1].Operator = "LIKE"
        /\ cypher[c] = "MATCH (n:" \o BQ \o "Person" \o BQ
                          \o ") WHERE n.name = $n_name RETURN n"

-----------------------------------------------------------------------------
(* C20 *)

\* the hop range C20 gives for an edge
C20_Hops(e) ==
    CASE e.MinHops = <<>> /\ e.MaxHops = <<>> -> ""
      [] e.MinHops # <<>> /\ e.MaxHops # <<>> /\ e.MinHops[1] = e.MaxHops[1] ->
            "*" \o Itoa(e.MinHops[1])
      [] e.MinHops # <<>> /\ e.MaxHops # <<>> /\ e.MinHops[1] # e.MaxHops[1] ->
            "*" \o Itoa(e.MinHops[1]) \o ".." \o Itoa(e.MaxHops[1])
      [] e.MinHops # <<>> /\ e.MaxHops = <<>> -> "*" \o Itoa(e.MinHops[1]) \o ".."
      [] e.MinHops = <<>> /\ e.MaxHops # <<>> -> "*.." \o Itoa(e.MaxHops[1])

\* C20: inside the brackets of an edge the hop range comes directly after the
\* alias and the edge types, and is: nothing when MinHops and MaxHops are both
\* unset, "*N" when both are N, "*min..max" when both are set and differ,
\* "*min.." when only MinHops is set, "*..max" when only MaxHops is set.
C20_HopRangeText ==
    \A c \in Calls :
        (/\ pc[c] \in {"matched", "filtered", "done"}
         /\ Len(query[c].Match) = 1 /\ query[c].Match[1].Edge # Nil) =>
            LET e == query[c].Match[1].Edge[1]
                t == matchClause[c]
                open == CHOOSE i \in 1..Len(t) : t[i] = "["
                close == CHOOSE i \in (open + 1)..Len(t) :
                            /\ t[i] \in {" {", "]"}
                            /\ \A j \in (open + 1)..(i - 1) : t[j] \notin {" {", "]"}
            IN  /\ Occurrences(t, <<"[">>) = 1
                /\ t[close] = (IF DOMAIN e.Properties = {} THEN "]" ELSE " {")
                /\ Cat(SubSeq(t, open + 1, close - 1))
                      = OrDefault(e.Alias, "r")
                        \o (IF e.Labels = <<>> THEN "" ELSE ":" \o JoinString(e.Labels, "|"))
                        \o C20_Hops(e)

\* a finished call on an edge with two types, only MinHops set and inline
\* properties: "[e:KNOWS|LOVES*2.. {since: $e_since}]"
C20_Witness ==
    \E c \in Calls :
        /\ Done(c)
        /\ Len(query[c].Match) = 1 /\ query[c].Match[1].Edge # Nil
        /\ Deref(query[c].Match[1].Edge).MinHops = Ptr(2)
        /\ Deref(query[c].Match[1].Edge).MaxHops = Nil
        /\ Occurrences(matchClause[c],
                       <<"[", "e", ":", "KNOWS", "|", "LOVES", "*", "2", "..", " {",
                         "since", ": $", "e_since", "}", "]">>) = 1

-----------------------------------------------------------------------------
(* C21 *)

\* the wrapping C21 gives for a Direction: <<before the "[", after the "]">>
C21_Wrap(direction) ==
    CASE direction = "<-" -> <<"<-", "-">>
      [] direction = "--" -> <<"-", "-">>
      [] OTHER -> <<"-", "->">>

\* C21: the edge brackets are wrapped by the Direction: outgoing "-[...]->",
\* incoming "<-[...]-", both "-[...]-"; an empty or unknown Direction is
\* wrapped as outgoing; "<-[...]->" is never written.
C21_DirectionWrap ==
    \A c \in Calls :
        (/\ pc[c] \in {"matched", "filtered", "done"}
         /\ Len(query[c].Match) = 1 /\ query[c].Match[1].Edge # Nil) =>
            LET t == matchClause[c]
                open == CHOOSE i \in 1..Len(t) : t[i] = "["
                close == CHOOSE i \in 1..Len(t) : t[i] = "]"
                wrap == <<t[open - 1], t[close + 1]>>
            IN  /\ Occurrences(t, <<"[">>) = 1 /\ Occurrences(t, <<"]">>) = 1
                /\ open > 1 /\ close < Len(t) /\ open < close
                /\ t[open - 2] = ")"
                /\ wrap = C21_Wrap(query[c].Match[1].Edge[1].Direction)
                /\ wrap # <<"<-", "->">>

\* a finished call on an edge whose Direction is none of the three, wrapped
\* as outgoing
C21_Witness ==
    \E c \in Calls :
        /\ Done(c)
        /\ Len(query[c].Match) = 1 /\ query[c].Match[1].Edge # Nil
        /\ Deref(query[c].Match[1].Edge).Direction = "<>"
        /\ Occurrences(matchClause[c], <<")", "-", "[", "r", ":", "KNOWS", "]", "->", "(">>) = 1

-----------------------------------------------------------------------------
(* C22 *)

\* the pattern p with the Properties and the Edge of its far node taken away
WithoutFarDetails(p) ==
    IF p.Edge = <<>> \/ p.Edge[1].Node = <<>> THEN p
    ELSE [p EXCEPT !.Edge = <<[p.Edge[1] EXCEPT !.Node =
                                  <<[p.Edge[1].Node[1] EXCEPT !.Properties = EmptyMap,
                                                              !.Edge = <<>>]>>]>>]

-----------------------------------------------------------------------------
(* C23 *)

\* C23: the Return operation writes, after "RETURN ", the Return items in
\* order, each as its Expression, or "Expression AS Alias" when it has an
\* Alias, joined by ", "; with an empty Return it writes every alias of the
\* alias list in order; so with a non-empty Match something follows RETURN.
C23_Projection ==
    \A c \in Calls :
        (Done(c) /\ op[c] = "Query") =>
            LET q == query[c]
                item(i) == IF q.Return[i].Alias # ""
                           THEN q.Return[i].Expression \o " AS " \o q.Return[i].Alias
                           ELSE q.Return[i].Expression
                items == IF q.Return # <<>>
                         THEN [i \in 1..Len(q.Return) |-> item(i)]
                         ELSE ClaimedAliases(q.Match)
            IN  /\ opClause[c] # <<>> /\ opClause[c][1] = "RETURN "
                /\ UpToKeyword(opClause[c], 1) = JoinString(items, ", ")
                /\ Len(q.Match) > 0 => UpToKeyword(opClause[c], 1) # ""

\* a finished call with no Return on an unnamed node with an unnamed edge to
\* an unnamed node
C23_Witness ==
    \E c \in Calls :
        /\ Done(c) /\ op[c] = "Query"
        /\ query[c].Return = <<>>
        /\ Cat(opClause[c]) = "RETURN n, r, m"

-----------------------------------------------------------------------------
(* C24 *)

\* C24: for a non-empty property map and a non-empty Match the clause of
\* UpdateNodesByQuery is "SET " and then one "<a>.<key> = $<param>" per
\* property key, joined by ", ", <a> being the node alias of the first Match
\* pattern ("n" when empty); distinct keys have parameters of distinct names,
\* each bound to the value of its own key.
C24_SetClause ==
    \A c \in Calls :
        (/\ Done(c) /\ op[c] = "UpdateNodesByQuery"
         /\ DOMAIN properties[c] # {} /\ Len(query[c].Match) > 0) =>
            LET a    == OrDefault(query[c].Match[1].Alias, "n")
                t    == opClause[c]
                keys == DOMAIN properties[c]
                n    == Cardinality(keys)
                part(i) == SubSeq(t, 6 * i - 4, 6 * i)
                name(i) == t[6 * i]
            IN  /\ Len(t) = 6 * n
                /\ t[1] = "SET "
                /\ \A i \in 2..n : t[6 * i - 5] = ", "
                /\ \A i \in 1..n :
                      /\ t[6 * i - 4] = a /\ t[6 * i - 3] = "."
                      /\ t[6 * i - 2] \in keys /\ t[6 * i - 1] = " = $"
                      /\ name(i) \in DOMAIN opParams[c]
                      /\ opParams[c][name(i)] = properties[c][t[6 * i - 2]]
                      /\ params[c][name(i)] = properties[c][t[6 * i - 2]]
                /\ \A i, j \in 1..n :
                      i # j => (t[6 * i - 2] # t[6 * j - 2] /\ name(i) # name(j))
                /\ Cardinality(DOMAIN opParams[c]) = n
                /\ Occurrences(sb[c], <<"SET ">>) = 1

\* a finished UpdateNodesByQuery that sets two properties on a pattern with
\* no alias
C24_Witness ==
    \E c \in Calls :
        /\ Done(c) /\ op[c] = "UpdateNodesByQuery"
        /\ Len(query[c].Match) > 0 /\ query[c].Match[1].Alias = ""
        /\ Cat(opClause[c]) = "SET n.age = $n_set_age_0, n.name = $n_set_name_1"
        /\ opParams[c] = ("n_set_age_0" :> IntVal(30)) @@ ("n_set_name_1" :> StrVal("Alice"))

-----------------------------------------------------------------------------
(* C25 *)

\* C25: when the first Match pattern has an Edge, the text of
\* DeleteEdgesByQuery holds "DELETE <e>", with no DETACH, <e> being the edge
\* alias the MATCH text shows: Edge.Alias, or "r" when Edge.Alias is empty.
C25_DeleteEdge ==
    \A c \in Calls :
        (/\ Done(c) /\ op[c] = "DeleteEdgesByQuery"
         /\ Len(query[c].Match) > 0 /\ query[c].Match[1].Edge # Nil) =>
            LET e == OrDefault(query[c].Match[1].Edge[1].Alias, "r")
            IN  /\ Occurrences(matchClause[c], <<"[", e>>) >= 1
                /\ Occurrences(sb[c], <<"DELETE ", e>>) = 1
                /\ Occurrences(sb[c], <<"DETACH DELETE ">>) = 0

-----------------------------------------------------------------------------
(* C26 *)

\* C26: for an alias A and a selector that is not nil, buildNodeMatchClause
\* renders "(A:`L1`... {k: $A_k, ...})" (after "MATCH "), with one parameter
\* A_k per property key, bound to the key's value and referred to once in the
\* text, and with no braces and no parameters when the selector has no
\* properties; for a nil selector it returns the empty text and an empty map.
C26_NodeSelector ==
    nodePc = "done" =>
        IF nodeSelector = <<>>
        THEN nodeMatch = <<>> /\ nodeParams = EmptyMap
        ELSE LET s    == nodeSelector[1]
                 keys == DOMAIN s.Properties
                 t    == nodeMatch
                 head == "MATCH (" \o nodeAlias \o C17_Labels(s.Labels)
             IN  /\ DOMAIN nodeParams = {nodeAlias \o "_" \o k : k \in keys}
                 /\ \A k \in keys :
                       /\ nodeParams[nodeAlias \o "_" \o k] = s.Properties[k]
                       /\ Occurrences(t, <<k, ": $", nodeAlias \o "_" \o k>>) = 1
                 /\ Occurrences(t, <<": $">>) = Cardinality(keys)
                 /\ IF keys = {}
                    THEN /\ Cat(t) = head \o ")"
                         /\ Occurrences(t, <<" {">>) = 0 /\ Occurrences(t, <<"}">>) = 0
                    ELSE \E ord \in Orders(keys) :
                            Cat(t) = head \o " {"
                                     \o JoinString([i \in 1..Len(ord) |->
                                                       ord[i] \o ": $" \o nodeAlias
                                                       \o "_" \o ord[i]], ", ")
                                     \o "})"

\* a call on alias b and a selector with two labels and three properties
C26_Witness ==
    /\ nodePc = "done"
    /\ nodeAlias = "b"
    /\ Cat(nodeMatch) = "MATCH (b:" \o BQ \o "Person" \o BQ \o ":" \o BQ \o "Manager" \o BQ
                           \o " {city: $b_city, name: $b_name, age: $b_age})"
    /\ nodeParams = ("b_name" :> StrVal("Alice")) @@ ("b_age" :> IntVal(30))
                    @@ ("b_city" :> StrVal("Oslo"))

-----------------------------------------------------------------------------
(* C27 *)

\* C27: with an empty Match the Set and Delete strategies return an empty
\* clause and an empty parameter map; the text of UpdateNodesByQuery and of
\* DeleteNodesByQuery (and of the two methods on edges) then has no MATCH, no
\* SET and no DELETE: it is the WHERE text, if any, and the count.
C27_EmptyMatch ==
    \A c \in Calls :
        (/\ Done(c) /\ query[c].Match = <<>>
         /\ op[c] \in {"UpdateNodesByQuery", "DeleteNodesByQuery",
                       "UpdateEdgesByQuery", "DeleteEdgesByQuery"}) =>
            /\ opClause[c] = <<>>
            /\ opParams[c] = EmptyMap
            /\ \A i \in 1..Len(sb[c]) :
                  sb[c][i] \notin {"MATCH ", "SET ", "DELETE ", "DETACH DELETE "}
            /\ sb[c] = (IF whereClause[c] = <<>> THEN <<>> ELSE whereClause[c] \o <<" ">>)
            /\ cypher[c] = Cat(sb[c]) \o " RETURN count(*)"
            /\ DOMAIN params[c] = BoundNames(c)

\* a finished UpdateNodesByQuery with properties to set, an empty Match and a
\* Where, and so the text of the Where and the count
C27_Witness ==
    \E c \in Calls :
        /\ Done(c) /\ op[c] = "UpdateNodesByQuery"
        /\ query[c].Match = <<>> /\ DOMAIN properties[c] # {}
        /\ cypher[c] = "WHERE (n.age > $n_age)  RETURN count(*)"

-----------------------------------------------------------------------------
(* C28 *)

\* task t's function has returned
HasReturned(t) == taskPc[t] \in {"returned", "recorded", "done"}

-----------------------------------------------------------------------------
(* C29 *)

\* the results CollectAll has built are one result for each job
ExactlyTheResults ==
    /\ Len(results) = MaxJobs
    /\ {results[i] : i \in 1..Len(results)} = Jobs

\* C29: once Submit has accepted every one of the jobs, all of which end,
\* and Close has been called, a call of CollectAll eventually returns, with
\* exactly one result for each job, whatever the bufferSize, when nobody
\* else reads Results().
C29_CollectAllReturns ==
    (/\ ctlPc = "closed"
     /\ collectPc \in {"waiting", "ranging"}
     /\ \A j \in Jobs : submitPc[j] = "nil")
        ~> (collectPc = "returned" /\ ExactlyTheResults)

-----------------------------------------------------------------------------
(* C30 *)

\* C30: a Submit that runs along with Shutdown, or after it, returns nil
\* with its job in the queue or returns errWorkerPoolClosed: it never sends
\* on the closed job queue.
C30_SubmitNeverSendsOnClosedQueue ==
    ctlPc \in {"cancelled", "shutdown"} =>
        \A j \in Jobs : submitPc[j] \in {"new", "adding", "nil", "errWorkerPoolClosed"}

====
